---- MODULE Spec2Model ----
(***************************************************************************)
(* State-machine model of sqlite-tui's server core: the access resolver,   *)
(* the database Manager with its connection pool, the advisory LockManager,*)
(* the SessionManager and the CLI / TUI front ends that drive them.        *)
(***************************************************************************)
EXTENDS Integers, Sequences, FiniteSets, TLC

(***************************************************************************)
(* Bounds of the exploration.                                              *)
(***************************************************************************)
\* number of SSH sessions that connect during a run
MaxSessions == 2
\* number of sessions in the runs that only issue writing queries
MaxWriters == 3
\* number of Connection objects Open() can produce before it starts failing
MaxConns == 2
\* number of lock acquisitions whose time.Now() reading is distinguished
MaxTime == 2
\* number of sessions in the runs that vary the resolver and the users
MaxClients == 1
\* number of sessions in the runs that vary the guard flags of a command
MaxCommands == 2
\* number of change events Discovery emits during a run
MaxEvents == 2
\* number of sessions that call the LockManager directly
MaxHolders == 2
\* number of CLI sessions whose statement starts with white space
MaxStatements == 1
\* number of ExecuteQuery calls made against the changing snapshot
MaxCalls == 1
\* number of file-system events a watcher's channel holds at a time
MaxBurst == 2

(***************************************************************************)
(* access.Level and its predicates.                                        *)
(***************************************************************************)
None == 0
ReadOnly == 1
ReadWrite == 2
Admin == 3

\* a read test that holds for ReadOnly alone
CanRead_ReadOnlyAlone(l) == l = ReadOnly

CanRead(l) == l >= ReadOnly
CanWrite(l) == l >= ReadWrite
CanAdmin(l) == l >= Admin
CanDownload(l) == l >= ReadOnly

(***************************************************************************)
(* The discovery snapshot: one admitted file, reachable by path or alias.  *)
(***************************************************************************)
DiscoveredDatabases == { [Path |-> "/data/app.db", Alias |-> "app"] }
Paths == { d.Path : d \in DiscoveredDatabases }
NoDB == [Path |-> "", Alias |-> ""]
\* names a caller may pass as pathOrAlias
Names == { "app" }
\* the same, and a name discovery does not know
AllNames == Names \cup { "ghost" }

\* Discovery.GetDatabase: exact path first, then alias
GetDatabase(pathOrAlias) ==
    IF \E d \in DiscoveredDatabases : d.Path = pathOrAlias
    THEN CHOOSE d \in DiscoveredDatabases : d.Path = pathOrAlias
    ELSE IF \E d \in DiscoveredDatabases : d.Alias = pathOrAlias
         THEN CHOOSE d \in DiscoveredDatabases : d.Alias = pathOrAlias
         ELSE NoDB

(***************************************************************************)
(* Users and resolvers.                                                    *)
(***************************************************************************)
UserInfo(name, admin, anon, anonName) ==
    [Name |-> name, IsAdmin |-> admin, IsAnonymous |-> anon, AnonymousName |-> anonName]

alice == UserInfo("alice", FALSE, FALSE, "")
bob == UserInfo("bob", FALSE, FALSE, "")
Users == { alice, bob }

\* a user whose config entry has admin: true (auth copies it into IsAdmin)
root == UserInfo("root", TRUE, FALSE, "")
\* a user whose name a reloaded config lists as admin
carol == UserInfo("carol", FALSE, FALSE, "")
\* the anonymous user the Authenticator creates for an unknown key
guest == UserInfo("", FALSE, TRUE, "azure-tiger-42")
AllUsers == Users \cup { root, carol, guest }

\* UserInfo.DisplayName
DisplayName(u) == IF u.IsAnonymous THEN u.AnonymousName ELSE u.Name

Rule(p, l) == [Pattern |-> p, Level |-> l]

\* The configurations the server runs under: the second is what a config
\* reload installs (alice loses her read-write rule).
Resolvers == <<
    [AnonymousAccess |-> None,
     PublicRules |-> << Rule("*", ReadOnly) >>,
     UserRules |-> [n \in {"alice"} |-> << Rule("app", ReadWrite) >>],
     Admins |-> {}],
    [AnonymousAccess |-> None,
     PublicRules |-> << Rule("*", ReadOnly) >>,
     UserRules |-> [n \in {} |-> << >>],
     Admins |-> {}],
    \* an explicit deny in the public rules, a higher anonymous default
    [AnonymousAccess |-> ReadOnly,
     PublicRules |-> << Rule("app", None), Rule("*", ReadWrite) >>,
     UserRules |-> [n \in {} |-> << >>],
     Admins |-> {"carol"}],
    \* an explicit deny at the head of a user's own rules
    [AnonymousAccess |-> None,
     PublicRules |-> << Rule("*", ReadOnly) >>,
     UserRules |-> [n \in {"alice", "bob"} |->
                       IF n = "alice" THEN << Rule("app", None), Rule("*", ReadWrite) >>
                       ELSE << Rule("other", ReadWrite) >>],
     Admins |-> {}],
    \* two public rules that both match
    [AnonymousAccess |-> None,
     PublicRules |-> << Rule("app", ReadOnly), Rule("*", ReadWrite) >>,
     UserRules |-> [n \in {"bob"} |-> << Rule("*", ReadWrite), Rule("app", ReadOnly) >>],
     Admins |-> {}],
    \* no rules at all
    [AnonymousAccess |-> None,
     PublicRules |-> << >>,
     UserRules |-> [n \in {} |-> << >>],
     Admins |-> {"carol"}],
    \* a rule that names one file by its path
    [AnonymousAccess |-> None,
     PublicRules |-> << Rule("*", ReadOnly) >>,
     UserRules |-> [n \in {"alice"} |-> << Rule("/data/app.db", ReadWrite) >>],
     Admins |-> {}] >>

\* filepath.Base over the modelled paths
Base(p) == IF p \in {"/data/app.db", "/backup/app.db"} THEN "app.db" ELSE p

\* doublestar.Match over the modelled pattern vocabulary
GlobMatch(pattern, s) ==
    \/ pattern = s /\ pattern # ""
    \/ pattern = "*" /\ s \in {"app", "app.db"}
    \/ pattern = "**" /\ s # ""

\* matchPattern
matchPattern(pattern, dbPath, dbAlias) ==
    \/ dbAlias # "" /\ pattern = dbAlias
    \/ dbAlias # "" /\ GlobMatch(pattern, dbAlias)
    \/ dbPath # "" /\ pattern = dbPath
    \/ dbPath # "" /\ GlobMatch(pattern, dbPath)
    \/ dbPath # "" /\ GlobMatch(pattern, Base(dbPath))

\* matchRules: the first matching rule decides, None when none matches
RECURSIVE matchRules(_, _, _)
matchRules(rules, dbPath, dbAlias) ==
    IF rules = << >> THEN None
    ELSE IF matchPattern(Head(rules).Pattern, dbPath, dbAlias)
         THEN Head(rules).Level
         ELSE matchRules(Tail(rules), dbPath, dbAlias)

\* a resolver that does not look at the admin names
Resolve_NoAdminNames(r, user, dbPath, dbAlias) ==
    IF user.IsAdmin THEN Admin
    ELSE LET ul == IF ~user.IsAnonymous /\ user.Name \in DOMAIN r.UserRules
                   THEN matchRules(r.UserRules[user.Name], dbPath, dbAlias)
                   ELSE None
             pl == matchRules(r.PublicRules, dbPath, dbAlias)
         IN IF ul # None THEN ul
            ELSE IF pl # None THEN pl
            ELSE r.AnonymousAccess

\* Resolver.Resolve
Resolve(r, user, dbPath, dbAlias) ==
    IF user.IsAdmin THEN Admin
    ELSE IF ~user.IsAnonymous /\ user.Name \in r.Admins THEN Admin
    ELSE LET ul == IF ~user.IsAnonymous /\ user.Name \in DOMAIN r.UserRules
                   THEN matchRules(r.UserRules[user.Name], dbPath, dbAlias)
                   ELSE None
             pl == matchRules(r.PublicRules, dbPath, dbAlias)
         IN IF ul # None THEN ul
            ELSE IF pl # None THEN pl
            ELSE r.AnonymousAccess

(***************************************************************************)
(* SQL statements, as the sequence of keywords that decides how they are   *)
(* classified and what they do to the file.                                *)
(***************************************************************************)
Queries == { <<"select">>, <<"INSERT">>, <<"with", "insert">> }

\* trimToUpper / strings.ToUpper on a keyword
ToUpper(w) ==
    CASE w = "select" -> "SELECT"
      [] w = "with" -> "WITH"
      [] w = "insert" -> "INSERT"
      [] OTHER -> w

\* statements that start with one white-space character, and the same
\* statements without it
SpacedQueries ==
    { <<w, k>> : w \in {" ", "\t", "\n", "\r", "\f"}, k \in {"select", "with", "INSERT"} }
        \cup { <<"select">>, <<"with">>, <<"INSERT">> }

\* the statement without its leading characters of that set
RECURSIVE TrimLeft(_, _)
TrimLeft(q, cutset) ==
    IF q # << >> /\ q[1] \in cutset THEN TrimLeft(Tail(q), cutset) ELSE q

\* hasPrefix with one of the four keywords
hasPrefix(upper) ==
    upper # << >> /\ upper[1] \in {"SELECT", "PRAGMA", "EXPLAIN", "WITH"}

\* manager.go trimToUpper: skips ' ', '\t', '\n' and '\r' and upper-cases
\* what follows (the first 20 bytes of it, which hold any of the keywords)
trimToUpper(q) ==
    LET t == TrimLeft(q, {" ", "\t", "\n", "\r"})
    IN [i \in 1..Len(t) |-> ToUpper(t[i])]

\* manager.go isReadOnlyQuery: the prefix test on the trimmed, upper-cased
\* statement
isReadOnlyQuery(q) == hasPrefix(trimToUpper(q))

\* the CLI's trim: skips ' ' and '\t' only
trim(q) == TrimLeft(q, {" ", "\t"})

\* the CLI's isReadOnlyQuery: toUpper(trim(query)), then the prefix test
cli_isReadOnlyQuery(q) ==
    LET t == trim(q)
    IN hasPrefix([i \in 1..Len(t) |-> ToUpper(t[i])])

\* the white space of strings.TrimSpace among these characters
UnicodeSpace == {" ", "\t", "\n", "\r", "\f"}

\* query.go Query: strings.TrimSpace(strings.ToUpper(query)), then the
\* prefix test that sends the statement to executeSelect
isSelect(q) ==
    hasPrefix(TrimLeft([i \in 1..Len(q) |-> ToUpper(q[i])], UnicodeSpace))

\* what the engine does with the statement: it modifies the file when the
\* statement contains a data- or schema-changing verb
Modifies(q) ==
    \E i \in 1..Len(q) : ToUpper(q[i]) \in {"INSERT", "UPDATE", "DELETE", "DROP", "CREATE", "ALTER"}

(***************************************************************************)
(* Go maps as functions with a partial domain.                             *)
(***************************************************************************)
MapPut(m, k, v) == [x \in (DOMAIN m) \cup {k} |-> IF x = k THEN v ELSE m[x]]
MapDel(m, k) == [x \in (DOMAIN m) \ {k} |-> m[x]]
EmptyMap == [x \in {} |-> 0]

(***************************************************************************)
(* LockManager.                                                            *)
(***************************************************************************)
LockInfo(holder, sessionID, since) == [HeldBy |-> holder, SessionID |-> sessionID, Since |-> since]

\* a TryLock whose re-entry takes the lock anew
TryLock_Refresh(lk, dbPath, holder, sessionID, t) ==
    IF dbPath \in DOMAIN lk /\ lk[dbPath].SessionID # sessionID
    THEN [failed |-> TRUE, acquired |-> FALSE, locks |-> lk,
          HeldBy |-> lk[dbPath].HeldBy, Since |-> lk[dbPath].Since]
    ELSE [failed |-> FALSE, acquired |-> TRUE,
          locks |-> [p \in (DOMAIN lk) \cup {dbPath} |->
                       IF p = dbPath THEN [HeldBy |-> holder, SessionID |-> sessionID, Since |-> t]
                       ELSE lk[p]],
          HeldBy |-> "", Since |-> 0]

\* LockManager.TryLock: the new lock table and, on failure, the LockError
TryLock(lk, dbPath, holder, sessionID, t) ==
    IF dbPath \in DOMAIN lk
    THEN IF lk[dbPath].SessionID = sessionID
         THEN [failed |-> FALSE, acquired |-> FALSE, locks |-> lk, HeldBy |-> "", Since |-> 0]
         ELSE [failed |-> TRUE, acquired |-> FALSE, locks |-> lk,
               HeldBy |-> lk[dbPath].HeldBy, Since |-> lk[dbPath].Since]
    ELSE [failed |-> FALSE, acquired |-> TRUE,
          locks |-> MapPut(lk, dbPath, LockInfo(holder, sessionID, t)),
          HeldBy |-> "", Since |-> 0]

\* Unlock that leaves the entry in place
Unlock_Keep(lk, dbPath, sessionID) == lk

\* LockManager.Unlock
Unlock(lk, dbPath, sessionID) ==
    IF dbPath \in DOMAIN lk /\ lk[dbPath].SessionID = sessionID
    THEN MapDel(lk, dbPath)
    ELSE lk

\* a release that empties the table
ReleaseAllForSession_Everyone(lk, sessionID) == [p \in {} |-> 0]

\* LockManager.ReleaseAllForSession
ReleaseAllForSession(lk, sessionID) ==
    [p \in { q \in DOMAIN lk : lk[q].SessionID # sessionID } |-> lk[p]]

(***************************************************************************)
(* The engine: what executing a statement on a Connection does.            *)
(***************************************************************************)
\* outcome of running statement q on connection object c
EngineOutcome(c, q) ==
    IF c.closed THEN "EngineError"
    ELSE IF c.ReadOnly /\ Modifies(q) THEN "WriteToReadOnly"
    ELSE "ok"

\* the database file after the statement ran with that outcome
EngineApply(contents, path, q, outcome) ==
    IF outcome = "ok" /\ Modifies(q)
    THEN [contents EXCEPT ![path] = 1 - @]
    ELSE contents

(***************************************************************************)
(* Discovery: the files on disk, the configured sources, and what a scan   *)
(* makes of them.                                                          *)
(***************************************************************************)
\* files that may exist on disk, and the directories (which always exist)
Files == { "/data/app.db", "/backup/app.db", "/data/notes.dat" }
Dirs == { "/data", "/backup" }

\* filepath.Dir, filepath.Ext and the file name without its extension
Dir(f) == IF f = "/backup/app.db" THEN "/backup" ELSE "/data"
Ext(f) == IF f = "/data/notes.dat" THEN ".dat" ELSE IF f \in Files THEN ".db" ELSE ""
Stem(f) == IF f = "/data/notes.dat" THEN "notes" ELSE "app"

\* isSQLiteFile
isSQLiteFile(f) == Ext(f) \in { ".db", ".sqlite", ".sqlite3", ".db3" }

\* config.DatabaseSource
Source(path, alias) == [Path |-> path, Alias |-> alias]

\* the source lists a configuration may carry
SourceSets == {
    << Source("/data/app.db", "app") >>,
    << Source("/data", ""), Source("/backup/app.db", "") >>,
    << Source("/**/*.db", "main"), Source("/data/notes.dat", "*") >>,
    << Source("/data/*.db", "*"), Source("/backup", "bak") >> }

\* strings.ContainsAny(path, "*?[") over the modelled source paths
IsGlob(path) == path \in { "/data/*.db", "/**/*.db" }

\* doublestar.FilepathGlob over the files that exist
FilepathGlob(pattern, fs) ==
    CASE pattern = "/data/*.db" -> { f \in fs : Dir(f) = "/data" /\ Ext(f) = ".db" }
      [] pattern = "/**/*.db" -> { f \in fs : Ext(f) = ".db" }
      [] OTHER -> {}

\* createDiscoveredDBFromPath: the alias is the source's, the file's stem
\* when the source has none, or the template with * replaced by the stem
createDiscoveredDBFromPath(f, source) ==
    [Path |-> f,
     Alias |-> IF source.Alias = "" THEN Stem(f)
               ELSE IF source.Alias = "*" THEN Stem(f)
               ELSE source.Alias]

\* discoverSource: the databases one source yields, or the stat error
discoverSource(source, fs) ==
    IF IsGlob(source.Path)
    THEN [err |-> FALSE,
          found |-> { createDiscoveredDBFromPath(f, source) :
                        f \in { m \in FilepathGlob(source.Path, fs) : isSQLiteFile(m) } }]
    ELSE IF source.Path \notin fs \cup Dirs
    THEN [err |-> TRUE, found |-> {}]
    ELSE IF source.Path \in Dirs
    THEN [err |-> FALSE,
          found |-> { createDiscoveredDBFromPath(f, source) :
                        f \in { m \in fs : Dir(m) = source.Path /\ isSQLiteFile(m) } }]
    ELSE IF isSQLiteFile(source.Path)
    THEN [err |-> FALSE, found |-> { createDiscoveredDBFromPath(source.Path, source) }]
    ELSE [err |-> FALSE, found |-> {}]

\* the loop of scan over the sources: newDatabases[db.Path] = db, a later
\* source replacing what an earlier one put under the same path
RECURSIVE newDatabases(_, _, _)
newDatabases(sources, fs, acc) ==
    IF sources = << >> THEN acc
    ELSE LET r == discoverSource(Head(sources), fs)
             paths == { d.Path : d \in r.found }
             merged == [p \in (DOMAIN acc) \cup paths |->
                           IF p \in paths THEN CHOOSE d \in r.found : d.Path = p
                           ELSE acc[p]]
         IN newDatabases(Tail(sources), fs, IF r.err THEN acc ELSE merged)

\* an added list that names the whole new snapshot
Added_All(new, old) == { new[p] : p \in DOMAIN new }

\* scan: the databases whose path is new in the snapshot
Added(new, old) == { new[p] : p \in (DOMAIN new) \ (DOMAIN old) }

\* scan: the databases whose path is gone from the snapshot
Removed(new, old) == { old[p] : p \in (DOMAIN old) \ (DOMAIN new) }

\* Discovery.GetDatabase on a snapshot: the entry under that path, else an
\* entry with that alias; the loop ranges over a Go map, so with several
\* entries under one alias any of them may be the one returned
GetDatabaseIn(dbs, pathOrAlias) ==
    IF pathOrAlias \in DOMAIN dbs THEN { dbs[pathOrAlias] }
    ELSE LET byAlias == { dbs[p] : p \in { q \in DOMAIN dbs : dbs[q].Alias = pathOrAlias } }
         IN IF byAlias = {} THEN { NoDB } ELSE byAlias

\* the callbacks registered with OnChange
Subscribers == { 1, 2 }

\* NewDiscovery
NewDiscovery(sources, fs) ==
    [sources |-> sources, databases |-> EmptyMap, fs |-> fs,
     emitted |-> 0, added |-> {}, removed |-> {},
     pending |-> EmptyMap, delivered |-> [c \in Subscribers |-> << >>],
     updating |-> FALSE]

\* Store.RecordQuery: one more Query Record
RecordQuery(log, sessionID, q) == log \cup { [SessionID |-> sessionID, Query |-> q] }

(***************************************************************************)
(* State.                                                                  *)
(***************************************************************************)
VARIABLES
    resolver,      \* Manager.resolver: index into Resolvers
    connections,   \* Manager.connections: db path -> Connection object
    conns,         \* every Connection object Open() has produced
    locks,         \* LockManager.locks: db path -> LockInfo
    now,           \* time.Now() as a count of lock acquisitions
    db,            \* contents of each database file (a version bit)
    sessions,      \* SessionManager.sessions: ids of live sessions
    history,       \* history store: session id -> is_active
    audit,         \* history store: session id -> number of audit records
    queryLog,      \* history store: the Query Records
    disc,          \* Discovery: sources, snapshot, events, and the files on disk
    sess,          \* each SSH session's handler: user, command, position
    nextSession,   \* the next session to connect
    cw,            \* config.Watcher: the Config, its file, the loop, timer and reload
    dw             \* Discovery's watcher: the event channel, the loop, Stop

vars == <<resolver, connections, conns, locks, now, db, sessions, history, audit, queryLog, disc,
          sess, nextSession, cw, dw>>

Slots == 1..(CHOOSE m \in {MaxSessions, MaxWriters, MaxClients, MaxCommands, MaxHolders, MaxStatements,
                          MaxCalls} :
                 \A n \in {MaxSessions, MaxWriters, MaxClients, MaxCommands, MaxHolders, MaxStatements,
                           MaxCalls} :
                    m >= n)

\* uuid.New().String() for the n-th session
UUIDs == <<"uuid-1", "uuid-2", "uuid-3", "uuid-4", "uuid-5", "uuid-6">>
NewSessionID(n) == UUIDs[n]

\* the anonymous user SessionMiddleware creates when none is authenticated
unknownUser == UserInfo("", FALSE, TRUE, "unknown")

NoQuery == << >>

FreeSlot ==
    [kind |-> "none", user |-> unknownUser, ID |-> "", pc |-> "free", cmd |-> "",
     name |-> "", flags |-> {}, query |-> NoQuery, level |-> None, checked |-> None,
     conn |-> 0, locked |-> FALSE, err |-> "", heldBy |-> "", since |-> 0,
     lookups |-> << >>]

\* the configurations the config file can hold: the resolver BuildResolver
\* makes of each and its database sources
Configs == <<
    [Resolver |-> 1, Databases |-> << Source("/data/app.db", "app") >>],
    [Resolver |-> 4, Databases |-> << Source("/data", ""), Source("/backup/app.db", "") >>] >>

\* a config file that cannot be read or parsed
Malformed == 0

\* Config.BuildResolver
BuildResolver(c) == Configs[c].Resolver

\* config.NewWatcher over the loaded Config, before Start
NewWatcher ==
    [config |-> 1, file |-> 1, events |-> 0, timer |-> FALSE, loop |-> "idle",
     stopped |-> FALSE, reload |-> "idle", err |-> ""]

\* Watcher.Start: the file is watched and the loop runs
StartedWatcher == [NewWatcher EXCEPT !.loop = "running"]

\* Discovery's fsnotify watcher and loop as NewDiscovery leaves them: the
\* events read from the watcher but not yet received by the loop, the loop's
\* goroutine, the stop channel and the watcher being closed
NewWatch ==
    [events |-> << >>, loop |-> "idle", stopped |-> FALSE, closed |-> FALSE]

\* Discovery's watcher once Start has returned: the first scan is done and
\* the loop runs
StartedWatch == [NewWatch EXCEPT !.loop = "running"]

\* the discovery of the running server: the configured file has been found
\* by Start's scan
StartedDiscovery ==
    LET d == NewDiscovery(<< Source("/data/app.db", "app") >>, { "/data/app.db" })
    IN [d EXCEPT !.databases = newDatabases(d.sources, d.fs, EmptyMap)]

Init ==
    /\ resolver = 1
    /\ connections = EmptyMap
    /\ conns = << >>
    /\ locks = EmptyMap
    /\ now = 1
    /\ db = [p \in Paths |-> 0]
    /\ sessions = {}
    /\ history = EmptyMap
    /\ audit = EmptyMap
    /\ queryLog = {}
    /\ disc = StartedDiscovery
    /\ sess = [s \in Slots |-> FreeSlot]
    /\ nextSession = 1
    /\ cw = StartedWatcher
    /\ dw = StartedWatch

\* Manager.GetAccessLevel under the resolver installed right now
GetAccessLevel(user, pathOrAlias) ==
    LET d == GetDatabase(pathOrAlias)
    IN IF d = NoDB THEN None
       ELSE Resolve(Resolvers[resolver], user, d.Path, d.Alias)

\* the session id a front end hands to ExecuteQuery
\*   CLI: CommandContext.GetSessionID (the SSH session's id)
\*   TUI: App.executeQuery passes the empty string
GetSessionID(s) == IF sess[s].kind = "cli" THEN sess[s].ID ELSE ""

(***************************************************************************)
(* Returning from a handler.                                               *)
(***************************************************************************)
\* the call of session s returns with error e ("" for success); a LockError
\* carries the holder's name and acquisition time
Return(s, e, holder, since) ==
    [sess EXCEPT ![s].pc = "done",
                 ![s].err = e, ![s].heldBy = holder, ![s].since = since,
                 ![s].locked = FALSE, ![s].conn = 0, ![s].checked = None]

(***************************************************************************)
(* Manager.OpenConnection, called by ExecuteQuery, by the CLI's row        *)
(* commands and by the TUI's cell editor; on success the caller continues  *)
(* at nextpc with the Connection it was handed.                            *)
(***************************************************************************)
\* a pool lookup that never finds the cached Connection
CachedConnection_Miss(pool, path) == 0

\* the pool lookup of OpenConnection: the cached Connection, 0 when absent
CachedConnection(pool, path) == IF path \in DOMAIN pool THEN pool[path] ELSE 0

\* the mode of a freshly opened Connection
OpenReadOnly(level) == ~CanWrite(level)

OpenConnection(s, nextpc) ==
    LET d == GetDatabase(sess[s].name)
        level == GetAccessLevel(sess[s].user, sess[s].name)
        cached == CachedConnection(connections, d.Path)
        fresh == Len(conns) + 1
    IN IF d = NoDB
       THEN /\ sess' = Return(s, "NotFound", "", 0)
            /\ UNCHANGED <<connections, conns>>
       ELSE IF ~CanRead(level)
       THEN /\ sess' = Return(s, "AccessDenied", "", 0)
            /\ UNCHANGED <<connections, conns>>
       ELSE IF cached # 0
       THEN /\ sess' = [sess EXCEPT ![s].pc = nextpc, ![s].conn = cached]
            /\ UNCHANGED <<connections, conns>>
       ELSE IF fresh > MaxConns
       THEN /\ sess' = Return(s, "OpenFailed", "", 0)
            /\ UNCHANGED <<connections, conns>>
       ELSE /\ conns' = Append(conns, [Path |-> d.Path, ReadOnly |-> OpenReadOnly(level),
                                       closed |-> FALSE])
            /\ connections' = MapPut(connections, d.Path, fresh)
            /\ sess' = [sess EXCEPT ![s].pc = nextpc, ![s].conn = fresh]

(***************************************************************************)
(* Sessions connect: SessionMiddleware registers the session, then the     *)
(* routing middleware hands it to the CLI handler (a command was given) or *)
(* to the TUI.                                                             *)
(***************************************************************************)
CliCommands == {"query", "insert", "drop-table"}
\* the commands that refuse to run without their guard flags
GuardedCommands == {"delete", "update", "drop-table"}

\* the guard flags a command line may carry
Flags == {"where", "confirm", "force"}

\* guard flags that are never looked at
GuardsOK_Unchecked(cmd, flags) == TRUE

\* the guard flags cmdDelete, cmdUpdate and cmdDropTable insist on before
\* they go to the Manager
GuardsOK(cmd, flags) ==
    CASE cmd = "delete" -> ("confirm" \in flags \/ "force" \in flags) /\ "where" \in flags
      [] cmd = "update" -> "where" \in flags
      [] cmd = "drop-table" -> "confirm" \in flags
      [] OTHER -> TRUE

\* the commands that write an audit record after they succeeded
Audited(cmd) == cmd \in {"insert", "update", "delete", "create-table", "add-column", "drop-table"}

\* Store.RecordAuditSimple: one more audit record under the session id
RecordAuditSimple(a, sessionID) ==
    MapPut(a, sessionID, IF sessionID \in DOMAIN a THEN a[sessionID] + 1 ELSE 1)

\* the audit log after the command of session s finished with that outcome
AuditAfter(s, outcome) ==
    IF outcome = "ok" /\ sess[s].kind = "cli" /\ Audited(sess[s].cmd)
    THEN RecordAuditSimple(audit, sess[s].ID)
    ELSE audit

\* the statement a CLI command runs: cmdQuery takes it from the user, the
\* others build it
StatementOf(cmd, q) ==
    CASE cmd = "query" -> q
      [] cmd = "insert" -> <<"INSERT">>
      [] cmd = "delete" -> <<"DELETE">>
      [] cmd = "update" -> <<"UPDATE">>
      [] cmd = "drop-table" -> <<"DROP">>

ConnectCLI(limit, u, cmd, name, flags, q) ==
    /\ nextSession <= limit
    /\ LET s == nextSession
           id == NewSessionID(s)
       IN /\ sessions' = sessions \cup {id}
          /\ history' = MapPut(history, id, TRUE)
          /\ sess' = [sess EXCEPT ![s] =
                 [FreeSlot EXCEPT !.kind = "cli", !.user = u, !.ID = id, !.pc = "require",
                                  !.cmd = cmd, !.name = name, !.flags = flags,
                                  !.query = StatementOf(cmd, q)]]
    /\ nextSession' = nextSession + 1
    /\ UNCHANGED <<resolver, connections, conns, locks, now, db, audit, queryLog, disc, cw, dw>>

\* a listing that leaves out the can_read filter
ListDatabases_Unfiltered(u) ==
    { [Path |-> d.Path, Alias |-> d.Alias,
       AccessLevel |-> Resolve(Resolvers[resolver], u, d.Path, d.Alias)] :
         d \in DiscoveredDatabases }

\* Manager.ListDatabases under the resolver installed right now
ListDatabases(u) ==
    { [Path |-> d.Path, Alias |-> d.Alias,
       AccessLevel |-> Resolve(Resolvers[resolver], u, d.Path, d.Alias)] :
         d \in { x \in DiscoveredDatabases :
                    CanRead(Resolve(Resolvers[resolver], u, x.Path, x.Alias)) } }

\* the level the TUI caches for the database it shows (None: nothing listed)
ListedLevel(u) ==
    LET d == CHOOSE x \in DiscoveredDatabases : TRUE
        listed == { e \in ListDatabases(u) : e.Path = d.Path }
    IN IF listed = {} THEN None ELSE (CHOOSE e \in listed : TRUE).AccessLevel

ConnectTUI(limit, u) ==
    /\ nextSession <= limit
    /\ LET s == nextSession
           id == NewSessionID(s)
           d == CHOOSE x \in DiscoveredDatabases : TRUE
       IN /\ sessions' = sessions \cup {id}
          /\ history' = MapPut(history, id, TRUE)
          /\ sess' = [sess EXCEPT ![s] =
                 [FreeSlot EXCEPT !.kind = "tui", !.user = u, !.ID = id, !.pc = "idle",
                                  !.name = d.Alias, !.level = ListedLevel(u)]]
    /\ nextSession' = nextSession + 1
    /\ UNCHANGED <<resolver, connections, conns, locks, now, db, audit, queryLog, disc, cw, dw>>

\* SessionManager.GetSession: the registered session of that id, or nil
GetSession(id) == IF id \in sessions THEN id ELSE "nil"

\* SessionManager.ListActiveSessions
ListActiveSessions == sessions

\* SessionManager.Count
Count == Cardinality(sessions)

\* an end that marks the history row and keeps the session registered
EndSession_KeepRegistered(s) ==
    /\ \/ sess[s].kind = "cli" /\ sess[s].pc = "done"
       \/ sess[s].kind = "tui" /\ sess[s].pc \in {"idle", "done"}
    /\ history' = [history EXCEPT ![sess[s].ID] = FALSE]
    /\ sess' = [sess EXCEPT ![s] =
           [FreeSlot EXCEPT !.kind = sess[s].kind, !.user = sess[s].user,
                            !.ID = sess[s].ID, !.pc = "ended"]]
    /\ UNCHANGED <<resolver, connections, conns, locks, now, db, sessions, audit, queryLog, disc,
                   nextSession, cw, dw>>

\* SessionManager.EndSession, deferred by SessionMiddleware until the
\* handler has returned
EndSession(s) ==
    /\ \/ sess[s].kind = "cli" /\ sess[s].pc = "done"
       \/ sess[s].kind = "tui" /\ sess[s].pc \in {"idle", "done"}
    /\ sessions' = sessions \ {sess[s].ID}
    /\ history' = [history EXCEPT ![sess[s].ID] = FALSE]
    /\ sess' = [sess EXCEPT ![s] =
           [FreeSlot EXCEPT !.kind = sess[s].kind, !.user = sess[s].user,
                            !.ID = sess[s].ID, !.pc = "ended"]]
    /\ UNCHANGED <<resolver, connections, conns, locks, now, db, audit, queryLog, disc, nextSession,
                   cw, dw>>

(***************************************************************************)
(* CLI handlers up to their first Manager call.                            *)
(***************************************************************************)
\* cmdQuery: RequireRead, then RequireWrite when the statement is not
\* classified read-only; cmdInsert / cmdUpdate / cmdDelete / cmdDropTable:
\* RequireWrite, then the guard flags.
\* (Both checks of cmdQuery read the resolver; CanWrite implies CanRead, so
\* reading it once yields every outcome two reads can produce.)
CLI_Require(s) ==
    /\ sess[s].kind = "cli" /\ sess[s].pc = "require"
    /\ LET level == GetAccessLevel(sess[s].user, sess[s].name)
           allowed == IF sess[s].cmd = "query"
                      THEN CanRead(level) /\ (cli_isReadOnlyQuery(sess[s].query) \/ CanWrite(level))
                      ELSE CanWrite(level)
       IN sess' = IF ~allowed THEN Return(s, "AccessDenied", "", 0)
                  ELSE IF ~GuardsOK(sess[s].cmd, sess[s].flags)
                  THEN Return(s, "UsageError", "", 0)
                  ELSE [sess EXCEPT ![s].pc = IF sess[s].cmd \in {"query", "drop-table"}
                                              THEN "eq_check" ELSE "row_open"]
    /\ UNCHANGED <<resolver, connections, conns, locks, now, db, sessions, history, audit, queryLog, disc, nextSession,
                   cw, dw>>

(***************************************************************************)
(* TUI: the user starts a query from the query bar, or commits a cell edit.*)
(***************************************************************************)
\* handleQueryInput -> executeQuery
TUI_Query(s, q) ==
    /\ sess[s].kind = "tui" /\ sess[s].pc = "idle"
    /\ CanRead(sess[s].level)
    /\ sess' = [sess EXCEPT ![s].pc = "eq_check", ![s].cmd = "tui-query", ![s].query = q]
    /\ UNCHANGED <<resolver, connections, conns, locks, now, db, sessions, history, audit, queryLog, disc, nextSession,
                   cw, dw>>

\* App.Update on QueryExecutedMsg / CellUpdatedMsg: the result is shown and
\* the event loop waits for the next key
TUI_Update(s) ==
    /\ sess[s].kind = "tui" /\ sess[s].pc = "done"
    /\ sess' = [sess EXCEPT ![s].pc = "idle", ![s].cmd = "", ![s].query = NoQuery,
                            ![s].err = "", ![s].heldBy = "", ![s].since = 0]
    /\ UNCHANGED <<resolver, connections, conns, locks, now, db, sessions, history, audit, queryLog, disc, nextSession,
                   cw, dw>>

\* handleEditCell (gated on the listed level) -> executeCellUpdate
TUI_EditCell(s) ==
    /\ sess[s].kind = "tui" /\ sess[s].pc = "idle"
    /\ CanWrite(sess[s].level)
    /\ sess' = [sess EXCEPT ![s].pc = "cell_open", ![s].cmd = "tui-cell", ![s].query = <<"UPDATE">>]
    /\ UNCHANGED <<resolver, connections, conns, locks, now, db, sessions, history, audit, queryLog, disc, nextSession,
                   cw, dw>>

(***************************************************************************)
(* Manager.ExecuteQuery, in the steps between which other sessions run.    *)
(***************************************************************************)
\* ExecuteQuery without its write check
EQ_Check_NoWriteCheck(s) ==
    /\ sess[s].pc = "eq_check"
    /\ LET d == GetDatabase(sess[s].name)
           level == GetAccessLevel(sess[s].user, sess[s].name)
       IN sess' = IF d = NoDB THEN Return(s, "NotFound", "", 0)
                  ELSE [sess EXCEPT ![s].pc = "eq_open", ![s].checked = level]
    /\ UNCHANGED <<resolver, connections, conns, locks, now, db, sessions, history, audit, queryLog, disc, nextSession,
                   cw, dw>>

\* lines 184-194: resolve the database, classify, refuse writers without
\* write access; the level resolved here stays in the local variable
EQ_Check(s) ==
    /\ sess[s].pc = "eq_check"
    /\ LET d == GetDatabase(sess[s].name)
           level == GetAccessLevel(sess[s].user, sess[s].name)
       IN sess' = IF d = NoDB THEN Return(s, "NotFound", "", 0)
                  ELSE IF ~isReadOnlyQuery(sess[s].query) /\ ~CanWrite(level)
                  THEN Return(s, "AccessDenied", "", 0)
                  ELSE [sess EXCEPT ![s].pc = "eq_open", ![s].checked = level]
    /\ UNCHANGED <<resolver, connections, conns, locks, now, db, sessions, history, audit, queryLog, disc, nextSession,
                   cw, dw>>

\* lines 196-199
EQ_Open(s) ==
    /\ sess[s].pc = "eq_open"
    /\ OpenConnection(s, IF isReadOnlyQuery(sess[s].query) THEN "eq_exec" ELSE "eq_lock")
    /\ UNCHANGED <<resolver, locks, now, db, sessions, history, audit, queryLog, disc, nextSession,
                   cw, dw>>

\* lines 201-207: TryLock, and the deferred Unlock is registered
EQ_Lock(s) ==
    /\ sess[s].pc = "eq_lock"
    /\ LET d == GetDatabase(sess[s].name)
           r == TryLock(locks, d.Path, DisplayName(sess[s].user), GetSessionID(s), now)
       IN /\ r.acquired => now <= MaxTime
          /\ locks' = r.locks
          /\ now' = IF r.acquired THEN now + 1 ELSE now
          /\ sess' = IF r.failed THEN Return(s, "LockHeld", r.HeldBy, r.Since)
                     ELSE [sess EXCEPT ![s].pc = "eq_exec", ![s].locked = TRUE]
    /\ UNCHANGED <<resolver, connections, conns, db, sessions, history, audit, queryLog, disc, nextSession,
                   cw, dw>>

\* the deferred Unlock called without the caller's session id
DeferredUnlock_NoID(lk, locked, dbPath, sessionID) ==
    IF locked THEN Unlock(lk, dbPath, "") ELSE lk

\* the Unlock that ExecuteQuery defers after a successful TryLock
DeferredUnlock(lk, locked, dbPath, sessionID) ==
    IF locked THEN Unlock(lk, dbPath, sessionID) ELSE lk

\* lines 209-218: Query runs the statement, then the deferred Unlock runs
\* and the call returns; cmdCreateTable / cmdAddColumn / cmdDropTable write
\* their audit record when it returned a result
EQ_Exec(s) ==
    /\ sess[s].pc = "eq_exec"
    /\ LET d == GetDatabase(sess[s].name)
       IN \E outcome \in {EngineOutcome(conns[sess[s].conn], sess[s].query)} :
            /\ db' = EngineApply(db, d.Path, sess[s].query, outcome)
            /\ locks' = DeferredUnlock(locks, sess[s].locked, d.Path, GetSessionID(s))
            /\ audit' = AuditAfter(s, outcome)
            /\ sess' = Return(s, IF outcome = "ok" THEN "" ELSE outcome, "", 0)
    /\ UNCHANGED <<resolver, connections, conns, now, sessions, history, queryLog, disc, nextSession,
                   cw, dw>>

(***************************************************************************)
(* The CLI's row commands (cmdInsert, cmdUpdate, cmdDelete) and the TUI's  *)
(* cell editor go to the pool and the engine themselves.                   *)
(***************************************************************************)
Row_Open(s) ==
    /\ sess[s].pc = "row_open"
    /\ OpenConnection(s, "row_exec")
    /\ UNCHANGED <<resolver, locks, now, db, sessions, history, audit, queryLog, disc, nextSession,
                   cw, dw>>

\* database.Insert / database.Update / database.Delete -> Query, then the
\* audit record
Row_Exec(s) ==
    /\ sess[s].pc = "row_exec"
    /\ LET d == GetDatabase(sess[s].name)
       IN \E outcome \in {EngineOutcome(conns[sess[s].conn], sess[s].query)} :
            /\ db' = EngineApply(db, d.Path, sess[s].query, outcome)
            /\ audit' = AuditAfter(s, outcome)
            /\ sess' = Return(s, IF outcome = "ok" THEN "" ELSE outcome, "", 0)
    /\ UNCHANGED <<resolver, connections, conns, locks, now, sessions, history, queryLog, disc, nextSession,
                   cw, dw>>

Cell_Open(s) ==
    /\ sess[s].pc = "cell_open"
    /\ OpenConnection(s, "cell_exec")
    /\ UNCHANGED <<resolver, locks, now, db, sessions, history, audit, queryLog, disc, nextSession,
                   cw, dw>>

\* executeCellUpdate: conn.Execute("UPDATE ...")
Cell_Exec(s) ==
    /\ sess[s].pc = "cell_exec"
    /\ LET d == GetDatabase(sess[s].name)
       IN \E outcome \in {EngineOutcome(conns[sess[s].conn], sess[s].query)} :
            /\ db' = EngineApply(db, d.Path, sess[s].query, outcome)
            /\ sess' = Return(s, IF outcome = "ok" THEN "" ELSE outcome, "", 0)
    /\ UNCHANGED <<resolver, connections, conns, locks, now, sessions, history, audit, queryLog, disc, nextSession,
                   cw, dw>>

(***************************************************************************)
(* Manager operations not tied to a session.                               *)
(***************************************************************************)
\* Connection.Close on every object in cs
CloseAll(cs) == [c \in DOMAIN conns |-> IF c \in cs THEN [conns[c] EXCEPT !.closed = TRUE] ELSE conns[c]]

\* Manager.CloseConnection
CloseConnection(pathOrAlias) ==
    /\ LET d == GetDatabase(pathOrAlias)
       IN /\ d # NoDB
          /\ d.Path \in DOMAIN connections
          /\ conns' = CloseAll({connections[d.Path]})
          /\ connections' = MapDel(connections, d.Path)
    /\ UNCHANGED <<resolver, locks, now, db, sessions, history, audit, queryLog, disc, sess, nextSession,
                   cw, dw>>

\* Manager.UpdateResolver, called by the reload callback with the resolver
\* built from the new configuration
UpdateResolver(r) ==
    /\ resolver' = r
    /\ UNCHANGED <<connections, conns, locks, now, db, sessions, history, audit, queryLog, disc, sess, nextSession,
                   cw, dw>>

\* Manager.Stop
Stop ==
    /\ DOMAIN connections # {}
    /\ conns' = CloseAll({connections[p] : p \in DOMAIN connections})
    /\ connections' = EmptyMap
    /\ UNCHANGED <<resolver, locks, now, db, sessions, history, audit, queryLog, disc, sess, nextSession,
                   cw, dw>>

(***************************************************************************)
(* The LockManager's methods called directly by sessions that each have    *)
(* their own id; the session's record keeps its last call and what it      *)
(* returned.                                                               *)
(***************************************************************************)
\* the paths these sessions lock
LockPaths == { "/data/app.db", "/backup/app.db" }

\* the user of the s-th session
HolderUser(s) == IF s % 2 = 1 THEN alice ELSE bob

\* LockManager.TryLock
LM_TryLock(s, p) ==
    /\ sess[s].kind = "lm" /\ sess[s].pc = "idle"
    /\ LET r == TryLock(locks, p, DisplayName(sess[s].user), sess[s].ID, now)
       IN /\ r.acquired => now <= MaxTime
          /\ locks' = r.locks
          /\ now' = IF r.acquired THEN now + 1 ELSE now
          /\ sess' = [sess EXCEPT ![s].cmd = "TryLock", ![s].name = p, ![s].locked = r.acquired,
                                  ![s].err = IF r.failed THEN "LockHeld" ELSE "",
                                  ![s].heldBy = r.HeldBy, ![s].since = r.Since]
    /\ UNCHANGED <<resolver, connections, conns, db, sessions, history, audit, queryLog, disc,
                   nextSession, cw, dw>>

\* LockManager.Unlock
LM_Unlock(s, p) ==
    /\ sess[s].kind = "lm" /\ sess[s].pc = "idle"
    /\ locks' = Unlock(locks, p, sess[s].ID)
    /\ sess' = [sess EXCEPT ![s].cmd = "Unlock", ![s].name = p, ![s].locked = FALSE,
                            ![s].err = "", ![s].heldBy = "", ![s].since = 0]
    /\ UNCHANGED <<resolver, connections, conns, now, db, sessions, history, audit, queryLog, disc,
                   nextSession, cw, dw>>

\* LockManager.ReleaseAllForSession
LM_ReleaseAll(s) ==
    /\ sess[s].kind = "lm" /\ sess[s].pc = "idle"
    /\ locks' = ReleaseAllForSession(locks, sess[s].ID)
    /\ sess' = [sess EXCEPT ![s].cmd = "ReleaseAllForSession", ![s].name = "", ![s].locked = FALSE,
                            ![s].err = "", ![s].heldBy = "", ![s].since = 0]
    /\ UNCHANGED <<resolver, connections, conns, now, db, sessions, history, audit, queryLog, disc,
                   nextSession, cw, dw>>

\* LockManager.WithWriteLock up to the call of fn: TryLock, and the Unlock
\* is deferred when it succeeded
WithWriteLock(s, p) ==
    /\ sess[s].kind = "lm" /\ sess[s].pc = "idle"
    /\ LET r == TryLock(locks, p, DisplayName(sess[s].user), sess[s].ID, now)
       IN /\ r.acquired => now <= MaxTime
          /\ locks' = r.locks
          /\ now' = IF r.acquired THEN now + 1 ELSE now
          /\ sess' = [sess EXCEPT ![s].cmd = "WithWriteLock", ![s].name = p,
                                  ![s].locked = r.acquired,
                                  ![s].pc = IF r.failed THEN "idle" ELSE "wwl_fn",
                                  ![s].err = IF r.failed THEN "LockHeld" ELSE "",
                                  ![s].heldBy = r.HeldBy, ![s].since = r.Since]
    /\ UNCHANGED <<resolver, connections, conns, db, sessions, history, audit, queryLog, disc,
                   nextSession, cw, dw>>

\* a return from fn that keeps the lock when fn failed
WithWriteLock_Return_KeepOnError(s, e) ==
    /\ sess[s].kind = "lm" /\ sess[s].pc = "wwl_fn"
    /\ locks' = IF e = "" THEN Unlock(locks, sess[s].name, sess[s].ID) ELSE locks
    /\ sess' = [sess EXCEPT ![s].pc = "idle", ![s].err = e, ![s].locked = FALSE]
    /\ UNCHANGED <<resolver, connections, conns, now, db, sessions, history, audit, queryLog, disc,
                   nextSession, cw, dw>>

\* LockManager.WithWriteLock from the return of fn, with fn's error e ("" for
\* nil): the deferred Unlock runs and e is returned
WithWriteLock_Return(s, e) ==
    /\ sess[s].kind = "lm" /\ sess[s].pc = "wwl_fn"
    /\ locks' = Unlock(locks, sess[s].name, sess[s].ID)
    /\ sess' = [sess EXCEPT ![s].pc = "idle", ![s].err = e, ![s].locked = FALSE]
    /\ UNCHANGED <<resolver, connections, conns, now, db, sessions, history, audit, queryLog, disc,
                   nextSession, cw, dw>>

(***************************************************************************)
(* Discovery at work: files come and go, scans run (from Start, from the   *)
(* watcher, from Refresh, from UpdateSources), and every scan that found a *)
(* difference starts a goroutine that calls the subscribers.               *)
(***************************************************************************)
\* a SQLite file is created on disk / removed from it
FS_Create(f) ==
    /\ f \notin disc.fs
    /\ disc' = [disc EXCEPT !.fs = @ \cup {f}]
    /\ UNCHANGED <<resolver, connections, conns, locks, now, db, sessions, history, audit, queryLog,
                   sess, nextSession, cw, dw>>

FS_Remove(f) ==
    /\ f \in disc.fs
    /\ disc' = [disc EXCEPT !.fs = @ \ {f}]
    /\ UNCHANGED <<resolver, connections, conns, locks, now, db, sessions, history, audit, queryLog,
                   sess, nextSession, cw, dw>>

\* the body of scan, run under d.mu: the new snapshot replaces the old one
\* and, when anything was added or removed, the event is handed to a new
\* notifyCallbacks goroutine
ScanOf(d) ==
    LET new == newDatabases(d.sources, d.fs, EmptyMap)
        a == Added(new, d.databases)
        r == Removed(new, d.databases)
    IN IF a = {} /\ r = {}
       THEN [d EXCEPT !.databases = new]
       ELSE [d EXCEPT !.databases = new, !.emitted = @ + 1, !.added = a, !.removed = r,
                      !.pending = MapPut(@, d.emitted + 1, 1)]

\* Discovery.scan, as Start, the watcher and Refresh call it
scan ==
    /\ ScanOf(disc).emitted <= MaxEvents
    /\ disc' = ScanOf(disc)
    /\ UNCHANGED <<resolver, connections, conns, locks, now, db, sessions, history, audit, queryLog,
                   sess, nextSession, cw, dw>>

\* Discovery.UpdateSources, first critical section: the sources are replaced
UpdateSources(sources) ==
    /\ ~disc.updating
    /\ disc' = [disc EXCEPT !.sources = sources, !.updating = TRUE]
    /\ UNCHANGED <<resolver, connections, conns, locks, now, db, sessions, history, audit, queryLog,
                   sess, nextSession, cw, dw>>

\* Discovery.UpdateSources, second critical section: its scan
UpdateSources_scan ==
    /\ disc.updating
    /\ ScanOf(disc).emitted <= MaxEvents
    /\ disc' = [ScanOf(disc) EXCEPT !.updating = FALSE]
    /\ UNCHANGED <<resolver, connections, conns, locks, now, db, sessions, history, audit, queryLog,
                   sess, nextSession, cw, dw>>

\* one notifyCallbacks goroutine calls its next callback with its event
notifyCallbacks(e) ==
    /\ e \in DOMAIN disc.pending
    /\ LET c == disc.pending[e]
       IN disc' = [disc EXCEPT !.delivered[c] = Append(@, e),
                               !.pending = IF c = Cardinality(Subscribers)
                                           THEN MapDel(@, e) ELSE MapPut(@, e, c + 1)]
    /\ UNCHANGED <<resolver, connections, conns, locks, now, db, sessions, history, audit, queryLog,
                   sess, nextSession, cw, dw>>

(***************************************************************************)
(* Manager.ExecuteQuery against the snapshot Discovery holds right now:    *)
(* each of its lookups of the name reads the snapshot of that moment, and  *)
(* the call keeps the paths they returned ("" for nil) in lookups.         *)
(***************************************************************************)
\* the path a lookup returned
LookupPath(d) == IF d = NoDB THEN "" ELSE d.Path

\* manager.go:184-187, the lookup whose path the lock is taken on
XQ_GetDatabase(limit, u, n, q) ==
    /\ nextSession <= limit
    /\ \E d \in GetDatabaseIn(disc.databases, n) :
          LET s == nextSession
              call == [FreeSlot EXCEPT !.kind = "call", !.user = u, !.ID = NewSessionID(s),
                                       !.cmd = "ExecuteQuery", !.name = n, !.query = q,
                                       !.lookups = << LookupPath(d) >>]
          IN sess' = [sess EXCEPT ![s] =
                        IF d = NoDB THEN [call EXCEPT !.pc = "done", !.err = "NotFound"]
                        ELSE [call EXCEPT !.pc = "xq_level"]]
    /\ nextSession' = nextSession + 1
    /\ UNCHANGED <<resolver, connections, conns, locks, now, db, sessions, history, audit, queryLog,
                   disc, cw, dw>>

\* manager.go:189-194, GetAccessLevel with a lookup of its own, and the
\* write gate
XQ_GetAccessLevel(s) ==
    /\ sess[s].pc = "xq_level"
    /\ \E d \in GetDatabaseIn(disc.databases, sess[s].name) :
          LET level == IF d = NoDB THEN None
                       ELSE Resolve(Resolvers[resolver], sess[s].user, d.Path, d.Alias)
              seen == [sess EXCEPT ![s].lookups = Append(@, LookupPath(d))]
          IN sess' = IF ~isReadOnlyQuery(sess[s].query) /\ ~CanWrite(level)
                     THEN [seen EXCEPT ![s].pc = "done", ![s].err = "AccessDenied"]
                     ELSE [seen EXCEPT ![s].pc = "xq_open", ![s].checked = level]
    /\ UNCHANGED <<resolver, connections, conns, locks, now, db, sessions, history, audit, queryLog,
                   disc, nextSession, cw, dw>>

\* manager.go:131-134, the lookup of OpenConnection, whose path the pool is
\* asked for
XQ_OpenConnection(s) ==
    /\ sess[s].pc = "xq_open"
    /\ \E d \in GetDatabaseIn(disc.databases, sess[s].name) :
          LET seen == [sess EXCEPT ![s].lookups = Append(@, LookupPath(d))]
          IN sess' = IF d = NoDB
                     THEN [seen EXCEPT ![s].pc = "done", ![s].err = "NotFound"]
                     ELSE [seen EXCEPT ![s].pc = "xq_pool"]
    /\ UNCHANGED <<resolver, connections, conns, locks, now, db, sessions, history, audit, queryLog,
                   disc, nextSession, cw, dw>>

\* manager.go:137-161, GetAccessLevel with one more lookup, the read gate
\* and the pool
XQ_Pool(s) ==
    /\ sess[s].pc = "xq_pool"
    /\ \E d \in GetDatabaseIn(disc.databases, sess[s].name) :
          LET level == IF d = NoDB THEN None
                       ELSE Resolve(Resolvers[resolver], sess[s].user, d.Path, d.Alias)
              seen == [sess EXCEPT ![s].lookups = Append(@, LookupPath(d))]
              path == sess[s].lookups[3]
              cached == CachedConnection(connections, path)
              fresh == Len(conns) + 1
              nextpc == IF isReadOnlyQuery(sess[s].query) THEN "xq_query" ELSE "xq_lock"
          IN IF ~CanRead(level)
             THEN /\ sess' = [seen EXCEPT ![s].pc = "done", ![s].err = "AccessDenied"]
                  /\ UNCHANGED <<connections, conns>>
             ELSE IF cached # 0
             THEN /\ sess' = [seen EXCEPT ![s].pc = nextpc, ![s].conn = cached]
                  /\ UNCHANGED <<connections, conns>>
             ELSE IF fresh > MaxConns
             THEN /\ sess' = [seen EXCEPT ![s].pc = "done", ![s].err = "OpenFailed"]
                  /\ UNCHANGED <<connections, conns>>
             ELSE /\ conns' = Append(conns, [Path |-> path, ReadOnly |-> OpenReadOnly(level),
                                             closed |-> FALSE])
                  /\ connections' = MapPut(connections, path, fresh)
                  /\ sess' = [seen EXCEPT ![s].pc = nextpc, ![s].conn = fresh]
    /\ UNCHANGED <<resolver, locks, now, db, sessions, history, audit, queryLog, disc, nextSession,
                   cw, dw>>

\* manager.go:201-207, TryLock on the path of the first lookup
XQ_TryLock(s) ==
    /\ sess[s].pc = "xq_lock"
    /\ LET r == TryLock(locks, sess[s].lookups[1], DisplayName(sess[s].user), sess[s].ID, now)
       IN /\ r.acquired => now <= MaxTime
          /\ locks' = r.locks
          /\ now' = IF r.acquired THEN now + 1 ELSE now
          /\ sess' = IF r.failed THEN Return(s, "LockHeld", r.HeldBy, r.Since)
                     ELSE [sess EXCEPT ![s].pc = "xq_query", ![s].locked = TRUE]
    /\ UNCHANGED <<resolver, connections, conns, db, sessions, history, audit, queryLog, disc,
                   nextSession, cw, dw>>

\* manager.go:209-218, Query on the Connection, then the deferred Unlock
XQ_Query(s) ==
    /\ sess[s].pc = "xq_query"
    /\ LET c == conns[sess[s].conn]
           outcome == EngineOutcome(c, sess[s].query)
       IN /\ db' = EngineApply(db, c.Path, sess[s].query, outcome)
          /\ locks' = DeferredUnlock(locks, sess[s].locked, sess[s].lookups[1], sess[s].ID)
          /\ sess' = [sess EXCEPT ![s].pc = "done", ![s].locked = FALSE, ![s].conn = 0,
                                  ![s].err = IF outcome = "ok" THEN "" ELSE outcome]
    /\ UNCHANGED <<resolver, connections, conns, now, sessions, history, audit, queryLog, disc,
                   nextSession, cw, dw>>

(***************************************************************************)
(* config.Watcher: the config file is rewritten, the loop debounces the    *)
(* events with a timer, the timer's goroutine reloads the Config and calls *)
(* the callback runSSHServer registered.                                   *)
(***************************************************************************)
UnchangedByWatcher ==
    UNCHANGED <<connections, conns, locks, now, db, sessions, history, audit, queryLog, sess,
                nextSession, dw>>

\* the config file is rewritten; fsnotify queues a Write event while the
\* watcher is open
Cfg_Write(c) ==
    /\ c # cw.file
    /\ ~cw.stopped => cw.events < MaxBurst
    /\ cw' = [cw EXCEPT !.file = c, !.events = IF cw.stopped THEN 0 ELSE @ + 1]
    /\ UNCHANGED <<resolver, disc>>
    /\ UnchangedByWatcher

\* watch, case event: the debounce timer is stopped and started anew
CW_Event ==
    /\ cw.loop = "running" /\ cw.events > 0
    /\ cw' = [cw EXCEPT !.events = @ - 1, !.timer = TRUE]
    /\ UNCHANGED <<resolver, disc>>
    /\ UnchangedByWatcher

\* the debounce delay has passed: time.AfterFunc runs reload in a goroutine
\* of its own (one reload at a time)
CW_TimerFires ==
    /\ cw.timer /\ cw.reload = "idle"
    /\ cw' = [cw EXCEPT !.timer = FALSE, !.reload = "reload"]
    /\ UNCHANGED <<resolver, disc>>
    /\ UnchangedByWatcher

\* a reload that hands the Config to the callbacks whatever Reload returned
CW_Reload_Unchecked ==
    /\ cw.reload = "reload"
    /\ cw' = IF cw.file = Malformed
             THEN [cw EXCEPT !.reload = "resolver", !.err = "ReloadFailed"]
             ELSE [cw EXCEPT !.config = cw.file, !.reload = "resolver", !.err = ""]
    /\ UNCHANGED <<resolver, disc>>
    /\ UnchangedByWatcher

\* Watcher.reload up to the callbacks: Config.Reload reads and parses the
\* file; on an error it is logged and reload returns
CW_Reload ==
    /\ cw.reload = "reload"
    /\ cw' = IF cw.file = Malformed
             THEN [cw EXCEPT !.reload = "idle", !.err = "ReloadFailed"]
             ELSE [cw EXCEPT !.config = cw.file, !.reload = "resolver", !.err = ""]
    /\ UNCHANGED <<resolver, disc>>
    /\ UnchangedByWatcher

\* the callback, first call: dbManager.UpdateResolver(newCfg.BuildResolver())
CW_UpdateResolver ==
    /\ cw.reload = "resolver"
    /\ resolver' = BuildResolver(cw.config)
    /\ cw' = [cw EXCEPT !.reload = "sources"]
    /\ UNCHANGED disc
    /\ UnchangedByWatcher

\* the callback, second call: UpdateSources replaces the source list
CW_UpdateSources ==
    /\ cw.reload = "sources"
    /\ disc' = [disc EXCEPT !.sources = Configs[cw.config].Databases]
    /\ cw' = [cw EXCEPT !.reload = "scan"]
    /\ UNCHANGED resolver
    /\ UnchangedByWatcher

\* the scan that ends UpdateSources; the callback and reload return
CW_Scan ==
    /\ cw.reload = "scan"
    /\ ScanOf(disc).emitted <= MaxEvents
    /\ disc' = ScanOf(disc)
    /\ cw' = [cw EXCEPT !.reload = "idle"]
    /\ UNCHANGED resolver
    /\ UnchangedByWatcher

\* Watcher.Stop: the stop channel and the fsnotify watcher are closed, and
\* Stop returns
CW_Stop ==
    /\ ~cw.stopped /\ cw.loop = "running"
    /\ cw' = [cw EXCEPT !.stopped = TRUE, !.events = 0]
    /\ UNCHANGED <<resolver, disc>>
    /\ UnchangedByWatcher

\* watch, case stop: the debounce timer is stopped and the loop returns
CW_LoopStop ==
    /\ cw.loop = "running" /\ cw.stopped
    /\ cw' = [cw EXCEPT !.loop = "exited", !.timer = FALSE]
    /\ UNCHANGED <<resolver, disc>>
    /\ UnchangedByWatcher

\* watch, case event with the Events channel closed: the loop returns
CW_LoopClosed ==
    /\ cw.loop = "running" /\ cw.stopped
    /\ cw' = [cw EXCEPT !.loop = "exited"]
    /\ UNCHANGED <<resolver, disc>>
    /\ UnchangedByWatcher

(***************************************************************************)
(* Discovery.Start, the watcher loop and Discovery.Stop.                   *)
(***************************************************************************)
UnchangedByWatch ==
    UNCHANGED <<resolver, connections, conns, locks, now, db, sessions, history, audit, queryLog,
                sess, nextSession, cw>>

\* Start, the initial scan (it registers the watches)
DW_Start_scan ==
    /\ dw.loop = "idle"
    /\ ScanOf(disc).emitted <= MaxEvents
    /\ disc' = ScanOf(disc)
    /\ dw' = [dw EXCEPT !.loop = "scanned"]
    /\ UnchangedByWatch

\* Start, go d.watch()
DW_Start_go ==
    /\ dw.loop = "scanned"
    /\ dw' = [dw EXCEPT !.loop = "running"]
    /\ UNCHANGED disc
    /\ UnchangedByWatch

\* a file is created or removed; while the watches are registered and the
\* watcher is open, fsnotify reports it, and the event remembers whether
\* Stop had been called when it happened
Watch_Change(f) ==
    /\ disc' = [disc EXCEPT !.fs = IF f \in @ THEN @ \ {f} ELSE @ \cup {f}]
    /\ IF dw.loop # "idle" /\ ~dw.closed
       THEN /\ Len(dw.events) < MaxBurst
            /\ dw' = [dw EXCEPT !.events = Append(@, [Name |-> f, late |-> dw.stopped])]
       ELSE UNCHANGED dw
    /\ UnchangedByWatch

\* watch, case event: a rescan when the event names a database file
DW_Event ==
    /\ dw.loop = "running" /\ dw.events # << >>
    /\ dw' = [dw EXCEPT !.events = Tail(@)]
    /\ IF isSQLiteFile(Head(dw.events).Name)
       THEN /\ ScanOf(disc).emitted <= MaxEvents
            /\ disc' = ScanOf(disc)
       ELSE UNCHANGED disc
    /\ UnchangedByWatch

\* Stop, close(d.stop)
DW_Stop_close ==
    /\ dw.loop = "running" /\ ~dw.stopped
    /\ dw' = [dw EXCEPT !.stopped = TRUE]
    /\ UNCHANGED disc
    /\ UnchangedByWatch

\* Stop, d.watcher.Close(), and Stop returns: the event fsnotify is sending
\* may still be received, the ones it has not sent yet are dropped
DW_Stop_watcher ==
    /\ dw.stopped /\ ~dw.closed
    /\ dw' = [dw EXCEPT !.closed = TRUE,
                        !.events = IF @ = << >> THEN @ ELSE << Head(@) >>]
    /\ UNCHANGED disc
    /\ UnchangedByWatch

\* watch, case stop, or case event with the Events channel closed: the loop
\* returns
DW_LoopStop ==
    /\ dw.loop = "running" /\ dw.stopped
    /\ dw' = [dw EXCEPT !.loop = "exited", !.events = << >>]
    /\ UNCHANGED disc
    /\ UnchangedByWatch

\* the steps every connected session takes, whatever it was asked to do
Steps ==
    \/ \E s \in Slots : EndSession(s)
    \/ \E s \in Slots : TUI_Update(s)
    \/ \E s \in Slots : EQ_Check(s)
    \/ \E s \in Slots : EQ_Open(s)
    \/ \E s \in Slots : EQ_Exec(s)

\* every front end, every user
Next ==
    \/ \E u \in Users, cmd \in CliCommands, n \in Names, q \in Queries :
          /\ cmd # "query" => q = <<"select">>
          /\ ConnectCLI(MaxSessions, u, cmd, n, Flags, q)
    \/ \E u \in Users : ConnectTUI(MaxSessions, u)
    \/ \E s \in Slots : CLI_Require(s)
    \/ \E s \in Slots, q \in Queries : TUI_Query(s, q)
    \/ \E s \in Slots : TUI_EditCell(s)
    \/ \E s \in Slots : EQ_Lock(s)
    \/ \E s \in Slots : Row_Open(s)
    \/ \E s \in Slots : Row_Exec(s)
    \/ \E s \in Slots : Cell_Open(s)
    \/ \E s \in Slots : Cell_Exec(s)
    \/ Steps

Spec == Init /\ [][Next]_vars

\* sessions of one read-write user that all run a writing statement through
\* ExecuteQuery, from the CLI and from the TUI's query bar
NextWriters ==
    \/ \E n \in Names : ConnectCLI(MaxWriters, alice, "query", n, Flags, <<"INSERT">>)
    \/ ConnectTUI(MaxWriters, alice)
    \/ \E s \in Slots : CLI_Require(s)
    \/ \E s \in Slots : TUI_Query(s, <<"INSERT">>)
    \/ \E s \in Slots : EQ_Lock(s)
    \/ Steps

SpecWriters == Init /\ [][NextWriters]_vars

\* CLI sessions that query through ExecuteQuery or insert rows and TUI
\* sessions that run queries, while the pool is closed underneath them
NextPool ==
    \/ \E u \in Users, cmd \in {"query", "insert"}, n \in Names, q \in Queries :
          /\ cmd # "query" => q = <<"select">>
          /\ ConnectCLI(MaxSessions, u, cmd, n, Flags, q)
    \/ \E u \in Users : ConnectTUI(MaxSessions, u)
    \/ \E s \in Slots : CLI_Require(s)
    \/ \E s \in Slots : TUI_Query(s, <<"select">>)
    \/ \E s \in Slots : EQ_Lock(s)
    \/ \E s \in Slots : Row_Open(s)
    \/ \E s \in Slots : Row_Exec(s)
    \/ \E n \in Names : CloseConnection(n)
    \/ Stop
    \/ Steps

SpecPool == Init /\ [][NextPool]_vars

\* the server starts under any of the configurations, any user connects and
\* names any database, and the configuration is reloaded while they work
InitAccess ==
    /\ resolver \in DOMAIN Resolvers
    /\ connections = EmptyMap
    /\ conns = << >>
    /\ locks = EmptyMap
    /\ now = 1
    /\ db = [p \in Paths |-> 0]
    /\ sessions = {}
    /\ history = EmptyMap
    /\ audit = EmptyMap
    /\ queryLog = {}
    /\ disc = StartedDiscovery
    /\ sess = [s \in Slots |-> FreeSlot]
    /\ nextSession = 1
    /\ cw = StartedWatcher
    /\ dw = StartedWatch

NextAccess ==
    \/ \E u \in AllUsers, n \in AllNames, q \in {<<"select">>, <<"INSERT">>} :
          ConnectCLI(MaxClients, u, "query", n, Flags, q)
    \/ \E u \in AllUsers : ConnectTUI(MaxClients, u)
    \/ \E s \in Slots : CLI_Require(s)
    \/ \E s \in Slots, q \in {<<"select">>, <<"INSERT">>} : TUI_Query(s, q)
    \/ \E s \in Slots : EQ_Lock(s)
    \/ \E r \in DOMAIN Resolvers : UpdateResolver(r)
    \/ Steps

SpecAccess == InitAccess /\ [][NextAccess]_vars

\* CLI sessions that run the guarded commands with any combination of the
\* guard flags
NextGuards ==
    \/ \E u \in Users, cmd \in GuardedCommands, n \in Names, flags \in SUBSET Flags :
          ConnectCLI(MaxCommands, u, cmd, n, flags, <<"select">>)
    \/ \E s \in Slots : CLI_Require(s)
    \/ \E s \in Slots : EQ_Check(s)
    \/ \E s \in Slots : EQ_Open(s)
    \/ \E s \in Slots : EQ_Lock(s)
    \/ \E s \in Slots : EQ_Exec(s)
    \/ \E s \in Slots : Row_Open(s)
    \/ \E s \in Slots : Row_Exec(s)
    \/ \E s \in Slots : EndSession(s)

SpecGuards == Init /\ [][NextGuards]_vars

\* CLI sessions that run the query command on statements with and without
\* leading white space
NextClassify ==
    \/ \E u \in Users, n \in Names, q \in SpacedQueries :
          ConnectCLI(MaxStatements, u, "query", n, {}, q)
    \/ \E s \in Slots : CLI_Require(s)
    \/ \E s \in Slots : EQ_Check(s)
    \/ \E s \in Slots : EQ_Open(s)
    \/ \E s \in Slots : EQ_Lock(s)
    \/ \E s \in Slots : EQ_Exec(s)
    \/ \E s \in Slots : EndSession(s)

SpecClassify == Init /\ [][NextClassify]_vars

\* Discovery has scanned a directory and a file whose databases share the
\* alias "app"; files come and go and are rescanned while ExecuteQuery calls
\* name the database by alias or by path
InitLookups ==
    /\ resolver = 1
    /\ connections = EmptyMap
    /\ conns = << >>
    /\ locks = EmptyMap
    /\ now = 1
    /\ db = [p \in Files |-> 0]
    /\ sessions = {}
    /\ history = EmptyMap
    /\ audit = EmptyMap
    /\ queryLog = {}
    /\ disc = LET d == NewDiscovery(<< Source("/data", ""), Source("/backup/app.db", "") >>, Files)
              IN [d EXCEPT !.databases = newDatabases(d.sources, d.fs, EmptyMap)]
    /\ sess = [s \in Slots |-> FreeSlot]
    /\ nextSession = 1
    /\ cw = StartedWatcher
    /\ dw = StartedWatch

\* the same under the resolver whose rule names one of the two files by its
\* path
InitModes ==
    /\ resolver = 7
    /\ connections = EmptyMap
    /\ conns = << >>
    /\ locks = EmptyMap
    /\ now = 1
    /\ db = [p \in Files |-> 0]
    /\ sessions = {}
    /\ history = EmptyMap
    /\ audit = EmptyMap
    /\ queryLog = {}
    /\ disc = LET d == NewDiscovery(<< Source("/data", ""), Source("/backup/app.db", "") >>, Files)
              IN [d EXCEPT !.databases = newDatabases(d.sources, d.fs, EmptyMap)]
    /\ sess = [s \in Slots |-> FreeSlot]
    /\ nextSession = 1
    /\ cw = StartedWatcher
    /\ dw = StartedWatch

NextLookups ==
    \/ \E u \in Users, n \in {"app", "/data/app.db"}, q \in {<<"select">>, <<"INSERT">>} :
          XQ_GetDatabase(MaxCalls, u, n, q)
    \/ \E s \in Slots : XQ_GetAccessLevel(s)
    \/ \E s \in Slots : XQ_OpenConnection(s)
    \/ \E s \in Slots : XQ_Pool(s)
    \/ \E s \in Slots : XQ_TryLock(s)
    \/ \E s \in Slots : XQ_Query(s)
    \/ \E f \in Files : FS_Create(f)
    \/ \E f \in Files : FS_Remove(f)
    \/ scan
    \/ \E e \in 1..MaxEvents : notifyCallbacks(e)
    \/ Stop

SpecLookups == InitLookups /\ [][NextLookups]_vars

\* alice's calls name the database by its alias while the two database
\* files come and go; the program keeps running: some goroutine or some
\* change of the file system always takes a step, none of them in particular
NextVanish ==
    \/ \E q \in {<<"select">>, <<"INSERT">>} : XQ_GetDatabase(MaxCalls, alice, "app", q)
    \/ \E s \in Slots : XQ_GetAccessLevel(s)
    \/ \E s \in Slots : XQ_OpenConnection(s)
    \/ \E s \in Slots : XQ_Pool(s)
    \/ \E s \in Slots : XQ_TryLock(s)
    \/ \E s \in Slots : XQ_Query(s)
    \/ \E f \in {"/data/app.db", "/backup/app.db"} : FS_Create(f)
    \/ \E f \in {"/data/app.db", "/backup/app.db"} : FS_Remove(f)
    \/ scan
    \/ \E e \in 1..MaxEvents : notifyCallbacks(e)
    \/ Stop

SpecVanish == InitLookups /\ [][NextVanish]_vars /\ WF_vars(NextVanish)

SpecModes == InitModes /\ [][NextVanish]_vars

\* the server runs under the first configuration with every file on disk
\* and the config file is rewritten and reloaded
InitReload ==
    /\ resolver = BuildResolver(1)
    /\ connections = EmptyMap
    /\ conns = << >>
    /\ locks = EmptyMap
    /\ now = 1
    /\ db = [p \in Files |-> 0]
    /\ sessions = {}
    /\ history = EmptyMap
    /\ audit = EmptyMap
    /\ queryLog = {}
    /\ disc = LET d == NewDiscovery(Configs[1].Databases, Files)
              IN [d EXCEPT !.databases = newDatabases(d.sources, d.fs, EmptyMap)]
    /\ sess = [s \in Slots |-> FreeSlot]
    /\ nextSession = 1
    /\ cw = StartedWatcher
    /\ dw = StartedWatch

\* the config watcher at work, and the callbacks of the events its rescans
\* emit
NextWatcher ==
    \/ \E c \in DOMAIN Configs \cup {Malformed} : Cfg_Write(c)
    \/ CW_Event
    \/ CW_TimerFires
    \/ CW_Reload
    \/ CW_UpdateResolver
    \/ CW_UpdateSources
    \/ CW_Scan
    \/ CW_Stop
    \/ CW_LoopStop
    \/ CW_LoopClosed
    \/ \E e \in 1..MaxEvents : notifyCallbacks(e)

SpecWatcher == InitReload /\ [][NextWatcher]_vars

\* the same, while alice's ExecuteQuery calls name the database by its alias
NextReload ==
    \/ \E c \in DOMAIN Configs \cup {Malformed} : Cfg_Write(c)
    \/ CW_Event
    \/ CW_TimerFires
    \/ CW_Reload
    \/ CW_UpdateResolver
    \/ CW_UpdateSources
    \/ CW_Scan
    \/ CW_Stop
    \/ CW_LoopStop
    \/ CW_LoopClosed
    \/ \E e \in 1..MaxEvents : notifyCallbacks(e)
    \/ \E q \in {<<"select">>, <<"INSERT">>} : XQ_GetDatabase(MaxCalls, alice, "app", q)
    \/ \E s \in Slots : XQ_GetAccessLevel(s)
    \/ \E s \in Slots : XQ_OpenConnection(s)
    \/ \E s \in Slots : XQ_Pool(s)
    \/ \E s \in Slots : XQ_TryLock(s)
    \/ \E s \in Slots : XQ_Query(s)

SpecReload == InitReload /\ [][NextReload]_vars

\* Discovery is constructed over a directory and a file, with any of the
\* files on disk, started, and stopped, while files are created and removed
InitWatch ==
    /\ resolver = 1
    /\ connections = EmptyMap
    /\ conns = << >>
    /\ locks = EmptyMap
    /\ now = 1
    /\ db = [p \in Files |-> 0]
    /\ sessions = {}
    /\ history = EmptyMap
    /\ audit = EmptyMap
    /\ queryLog = {}
    /\ disc \in { NewDiscovery(<< Source("/data", ""), Source("/backup/app.db", "") >>, fs) :
                     fs \in SUBSET Files }
    /\ sess = [s \in Slots |-> FreeSlot]
    /\ nextSession = 1
    /\ cw = StartedWatcher
    /\ dw = NewWatch

NextWatch ==
    \/ DW_Start_scan
    \/ DW_Start_go
    \/ \E f \in Files : Watch_Change(f)
    \/ DW_Event
    \/ DW_Stop_close
    \/ DW_Stop_watcher
    \/ DW_LoopStop
    \/ \E e \in 1..MaxEvents : notifyCallbacks(e)

SpecWatch == InitWatch /\ [][NextWatch]_vars

\* sessions with ids of their own call the LockManager's methods in any
\* order on any path
InitLocks ==
    /\ resolver = 1
    /\ connections = EmptyMap
    /\ conns = << >>
    /\ locks = EmptyMap
    /\ now = 1
    /\ db = [p \in Paths |-> 0]
    /\ sessions = {}
    /\ history = EmptyMap
    /\ audit = EmptyMap
    /\ queryLog = {}
    /\ disc = StartedDiscovery
    /\ sess = [s \in Slots |->
                 IF s <= MaxHolders
                 THEN [FreeSlot EXCEPT !.kind = "lm", !.user = HolderUser(s),
                                       !.ID = NewSessionID(s), !.pc = "idle"]
                 ELSE FreeSlot]
    /\ nextSession = 1
    /\ cw = StartedWatcher
    /\ dw = StartedWatch

NextLocks ==
    \/ \E s \in Slots, p \in LockPaths : LM_TryLock(s, p)
    \/ \E s \in Slots, p \in LockPaths : LM_Unlock(s, p)
    \/ \E s \in Slots : LM_ReleaseAll(s)
    \/ \E s \in Slots, p \in LockPaths : WithWriteLock(s, p)
    \/ \E s \in Slots, e \in {"", "ActionFailed"} : WithWriteLock_Return(s, e)

SpecLocks == InitLocks /\ [][NextLocks]_vars

\* Discovery is constructed over any of the source lists and any files, then
\* started; files change, scans run and the sources are reloaded
InitDiscovery ==
    /\ resolver = 1
    /\ connections = EmptyMap
    /\ conns = << >>
    /\ locks = EmptyMap
    /\ now = 1
    /\ db = [p \in Paths |-> 0]
    /\ sessions = {}
    /\ history = EmptyMap
    /\ audit = EmptyMap
    /\ queryLog = {}
    /\ disc \in { NewDiscovery(sources, fs) : sources \in SourceSets, fs \in SUBSET Files }
    /\ sess = [s \in Slots |-> FreeSlot]
    /\ nextSession = 1
    /\ cw = StartedWatcher
    /\ dw = StartedWatch

NextDiscovery ==
    \/ \E f \in Files : FS_Create(f)
    \/ \E f \in Files : FS_Remove(f)
    \/ scan
    \/ \E sources \in SourceSets : UpdateSources(sources)
    \/ UpdateSources_scan
    \/ \E e \in 1..MaxEvents : notifyCallbacks(e)

SpecDiscovery == InitDiscovery /\ [][NextDiscovery]_vars

(***************************************************************************)
(* Vocabulary of the properties.                                           *)
(***************************************************************************)
\* the database path session s is working on
PathOf(s) == GetDatabase(sess[s].name).Path

\* session s is inside a writing ExecuteQuery: its TryLock returned nil and
\* its deferred Unlock has not run yet
Holding(s) == sess[s].pc = "eq_exec" /\ sess[s].locked

\* the lock table has an entry for s's database under the id s presented
OwnsEntry(s) == PathOf(s) \in DOMAIN locks /\ locks[PathOf(s)].SessionID = GetSessionID(s)

\* session s is at the engine with a statement
AtEngine(s) == sess[s].pc \in {"eq_exec", "row_exec", "cell_exec"}

\* this step is the engine call of session s returning
Executes(s) == AtEngine(s) /\ sess'[s].pc = "done"

\* the level the resolver gives the user of session s on its database
LevelOf(s) == GetAccessLevel(sess[s].user, sess[s].name)

(***************************************************************************)
(* C1: two writing ExecuteQuery calls on one path under different session  *)
(* ids are never both past TryLock and before their release: one of them   *)
(* got LockHeld.                                                           *)
(***************************************************************************)
C1_ExactlyOneAcquires ==
    \A a, b \in Slots :
        (a # b /\ GetSessionID(a) # GetSessionID(b) /\ PathOf(a) = PathOf(b))
            => ~(Holding(a) /\ Holding(b))

(***************************************************************************)
(* C2: the engine call of a request whose user resolves below ReadWrite    *)
(* leaves the database file as it was.                                     *)
(***************************************************************************)
C2_NoWriteBelowReadWrite ==
    [][\A s \in Slots : (Executes(s) /\ ~CanWrite(LevelOf(s))) => db' = db]_vars

(***************************************************************************)
(* C3: whenever a session is at the engine with a statement that modifies  *)
(* the database, the lock table holds that database's lock for the         *)
(* session, whichever command issued the statement.                        *)
(***************************************************************************)
C3_WritesHoldTheLock ==
    \A s \in Slots : (AtEngine(s) /\ Modifies(sess[s].query)) => OwnsEntry(s)

(***************************************************************************)
(* C4: from TryLock's success until the engine call returns, the lock      *)
(* table has the caller's entry for the path.                              *)
(***************************************************************************)
C4_LockHeldThroughout ==
    \A s \in Slots : Holding(s) => OwnsEntry(s)

(***************************************************************************)
(* C5: when a writing ExecuteQuery call that took the lock returns, with a *)
(* result or with an error, the lock table has no entry for the path under *)
(* the caller's session id.                                                *)
(***************************************************************************)
C5_ReleasedOnReturn ==
    [][\A s \in Slots :
         (Holding(s) /\ sess'[s].pc = "done")
            => ~(PathOf(s) \in DOMAIN locks' /\ locks'[PathOf(s)].SessionID = GetSessionID(s))]_vars

\* a writing call that took the lock has returned with the engine's error
\* and the table is empty
C5_Witness ==
    \E s \in Slots :
        /\ sess[s].pc = "done" /\ sess[s].cmd = "query" /\ ~isReadOnlyQuery(sess[s].query)
        /\ sess[s].err = "WriteToReadOnly"
        /\ locks = EmptyMap

(***************************************************************************)
(* C6: no lock entry carries the id of a session that has ended.           *)
(***************************************************************************)
C6_NoLockOfEndedSession ==
    \A id \in DOMAIN history :
        ~history[id] => \A p \in DOMAIN locks : locks[p].SessionID # id

\* the only session so far was a CLI session, it took the lock under its id
\* and it has ended
C6_Witness ==
    /\ nextSession = 2 /\ now = 2
    /\ sess[1].kind = "cli" /\ sess[1].pc = "ended"
    /\ ~history[sess[1].ID]

(***************************************************************************)
(* C7: two distinct sessions never present the same session id to the Lock *)
(* Manager.                                                                *)
(***************************************************************************)
C7_SessionIdsUnique ==
    \A a, b \in Slots :
        (a # b /\ sess[a].pc \in {"eq_lock", "eq_exec"} /\ sess[b].pc \in {"eq_lock", "eq_exec"})
            => GetSessionID(a) # GetSessionID(b)

(***************************************************************************)
(* C8: while session A holds the lock, the TryLock of another session B on *)
(* that database makes B return LockHeld with A's name and acquisition     *)
(* time, and leaves the lock table and the database as they were.          *)
(***************************************************************************)
C8_LockHeldReported ==
    [][\A a, b \in Slots :
         (/\ a # b /\ Holding(a) /\ OwnsEntry(a) /\ PathOf(a) = PathOf(b)
          /\ sess[b].pc = "eq_lock" /\ sess'[b].pc # "eq_lock")
            => /\ sess'[b].pc = "done" /\ sess'[b].err = "LockHeld"
               /\ sess'[b].heldBy = locks[PathOf(a)].HeldBy
               /\ sess'[b].since = locks[PathOf(a)].Since
               /\ locks' = locks /\ db' = db]_vars

(***************************************************************************)
(* C9: at most one open Connection object exists per database path, and    *)
(* every session that holds an open Connection holds the pooled one.       *)
(***************************************************************************)
C9_OneConnectionPerPath ==
    /\ \A p \in Paths :
          Cardinality({c \in DOMAIN conns : conns[c].Path = p /\ ~conns[c].closed}) <= 1
    /\ \A p \in DOMAIN connections : ~conns[connections[p]].closed
    /\ \A s \in Slots :
          (sess[s].conn # 0 /\ ~conns[sess[s].conn].closed)
             => (PathOf(s) \in DOMAIN connections /\ connections[PathOf(s)] = sess[s].conn)

\* two sessions at the engine share the pooled Connection
C9_Witness ==
    \E a, b \in Slots :
        /\ a # b /\ AtEngine(a) /\ AtEngine(b)
        /\ sess[a].conn # 0 /\ sess[a].conn = sess[b].conn
        /\ PathOf(a) \in DOMAIN connections /\ connections[PathOf(a)] = sess[a].conn

(***************************************************************************)
(* C10: a Connection handed to a user who may read but not write is        *)
(* read-only.                                                              *)
(***************************************************************************)
C10_ReadersGetReadOnly ==
    \A s \in Slots :
        (sess[s].conn # 0 /\ CanRead(LevelOf(s)) /\ ~CanWrite(LevelOf(s)))
            => conns[sess[s].conn].ReadOnly

(***************************************************************************)
(* More vocabulary: sessions that are connected, the rule that matches     *)
(* first in a list, the number of audit records.                           *)
(***************************************************************************)
\* session s is connected and names a database discovery knows
Connected(s) == sess[s].kind # "none" /\ sess[s].pc # "ended"
Known(s) == GetDatabase(sess[s].name) # NoDB

\* some rule of the list matches the database
HasMatch(rules, d) ==
    \E i \in 1..Len(rules) : matchPattern(rules[i].Pattern, d.Path, d.Alias)

\* the level of the first rule of the list that matches the database
FirstMatchLevel(rules, d) ==
    rules[CHOOSE i \in 1..Len(rules) :
            /\ matchPattern(rules[i].Pattern, d.Path, d.Alias)
            /\ \A j \in 1..(i - 1) : ~matchPattern(rules[j].Pattern, d.Path, d.Alias)].Level

\* the user's own rule list under resolver r (empty for anonymous users)
OwnRules(r, u) ==
    IF ~u.IsAnonymous /\ u.Name \in DOMAIN r.UserRules THEN r.UserRules[u.Name] ELSE << >>

\* the admin shortcut decides for this user
Shortcut(r, u) == ~u.IsAnonymous /\ (u.IsAdmin \/ u.Name \in r.Admins)

\* number of audit records in the store
RECURSIVE AuditTotal(_, _)
AuditTotal(a, ids) ==
    IF ids = {} THEN 0
    ELSE LET id == CHOOSE x \in ids : TRUE
         IN a[id] + AuditTotal(a, ids \ {id})

(***************************************************************************)
(* C11: a statement that modifies the database, issued by a user with      *)
(* can_write, is never rejected by the engine as a write to a read-only    *)
(* connection, whoever opened the database first.                          *)
(***************************************************************************)
C11_WriterNotRejected ==
    [][\A s \in Slots :
         (Executes(s) /\ CanWrite(LevelOf(s)) /\ Modifies(sess[s].query))
            => sess'[s].err # "WriteToReadOnly"]_vars

(***************************************************************************)
(* C12: when neither the admin shortcut nor a rule of the user's own       *)
(* decides and the first public rule that matches the database has level   *)
(* None, the user's level on it is None, whatever the anonymous default.   *)
(***************************************************************************)
C12_PublicNoneDenies ==
    \A s \in Slots :
        LET r == Resolvers[resolver]
            u == sess[s].user
            d == GetDatabase(sess[s].name)
        IN (/\ Connected(s) /\ Known(s)
            /\ ~Shortcut(r, u) /\ ~HasMatch(OwnRules(r, u), d)
            /\ HasMatch(r.PublicRules, d) /\ FirstMatchLevel(r.PublicRules, d) = None)
              => LevelOf(s) = None

(***************************************************************************)
(* C13: a named, non-admin user's level is the level of the first of the   *)
(* user's own rules that matches, None included; only when none matches is *)
(* it the level of the first matching public rule, and only when none of   *)
(* those matches the anonymous default.                                    *)
(***************************************************************************)
C13_FirstMatchWins ==
    \A s \in Slots :
        LET r == Resolvers[resolver]
            u == sess[s].user
            d == GetDatabase(sess[s].name)
        IN (Connected(s) /\ Known(s) /\ ~u.IsAnonymous /\ ~Shortcut(r, u))
              => LevelOf(s) =
                   IF HasMatch(OwnRules(r, u), d) THEN FirstMatchLevel(OwnRules(r, u), d)
                   ELSE IF HasMatch(r.PublicRules, d) THEN FirstMatchLevel(r.PublicRules, d)
                   ELSE r.AnonymousAccess

C15_DeniedBeforeAnyEffect ==
    [][\A s \in Slots :
         (/\ sess[s].pc = "eq_check" /\ sess'[s].pc # "eq_check" /\ Known(s)
          /\ ~isReadOnlyQuery(sess[s].query) /\ ~CanWrite(LevelOf(s)))
            => /\ sess'[s].pc = "done" /\ sess'[s].err = "AccessDenied"
               /\ locks' = locks /\ connections' = connections
               /\ conns' = conns /\ db' = db]_vars

\* a read-only user's INSERT from the query bar came back AccessDenied while
\* the pool holds a Connection
C15_Witness ==
    \E s \in Slots :
        /\ sess[s].kind = "tui" /\ sess[s].pc = "done" /\ sess[s].err = "AccessDenied"
        /\ sess[s].query = <<"INSERT">> /\ ~CanWrite(LevelOf(s))
        /\ DOMAIN connections # {}

(***************************************************************************)
(* C16: a request that names a database discovery does not know ends with  *)
(* NotFound, for every user and every entry point.                         *)
(***************************************************************************)
C16_UnknownNameIsNotFound ==
    \A s \in Slots :
        (sess[s].pc = "done" /\ ~Known(s)) => sess[s].err = "NotFound"

(***************************************************************************)
(* C17: the listing a session gets when it connects has an entry for       *)
(* exactly the discovered databases the user can read, each stamped with   *)
(* the resolved level; a user with the admin flag gets every database with *)
(* level Admin.                                                            *)
(***************************************************************************)
C17_ListingIsTheReadableSet ==
    [][\A s \in Slots :
         (sess[s].pc = "free" /\ sess'[s].kind = "tui")
            => LET u == sess'[s].user
                   L == ListDatabases(u)
               IN /\ \A d \in DiscoveredDatabases :
                        LET lv == Resolve(Resolvers[resolver], u, d.Path, d.Alias)
                        IN /\ CanRead(lv) =>
                                [Path |-> d.Path, Alias |-> d.Alias, AccessLevel |-> lv] \in L
                           /\ ~CanRead(lv) => ~(\E e \in L : e.Path = d.Path)
                           /\ u.IsAdmin =>
                                [Path |-> d.Path, Alias |-> d.Alias, AccessLevel |-> Admin] \in L
                  /\ \A e \in L :
                        /\ e.AccessLevel # None
                        /\ \E d \in DiscoveredDatabases :
                              /\ d.Path = e.Path /\ d.Alias = e.Alias
                              /\ e.AccessLevel = Resolve(Resolvers[resolver], u, d.Path, d.Alias)
                  /\ Cardinality(L) <= Cardinality(DiscoveredDatabases)
                  /\ sess'[s].level \in {e.AccessLevel : e \in L} \cup {None}
                  /\ (sess'[s].level = None) = (L = {})]_vars

\* the admin's listing under a configuration without rules shows the
\* database with level Admin
C17_Witness ==
    \E s \in Slots :
        /\ sess[s].kind = "tui" /\ sess[s].pc = "idle" /\ sess[s].user = root
        /\ Resolvers[resolver].PublicRules = << >>
        /\ sess[s].level = Admin

(***************************************************************************)
(* C18: the level ExecuteQuery resolved for its write check and the level  *)
(* its OpenConnection resolves are the same: the call decides under one    *)
(* resolver.                                                               *)
(***************************************************************************)
C18_OneResolverPerCall ==
    [][\A s \in Slots :
         (sess[s].pc = "eq_open" /\ sess'[s].pc # "eq_open")
            => sess[s].checked = LevelOf(s)]_vars

(***************************************************************************)
(* C19: a delete without --where or without --confirm / --force, an update *)
(* without --where and a drop-table without --confirm never get to the     *)
(* pool or the engine, and they end with an error.                         *)
(***************************************************************************)
C19_GuardedCommandsFailClosed ==
    \A s \in Slots :
        LET f == sess[s].flags
            unguarded ==
                \/ sess[s].cmd = "delete" /\ ("where" \notin f \/ f \cap {"confirm", "force"} = {})
                \/ sess[s].cmd = "update" /\ "where" \notin f
                \/ sess[s].cmd = "drop-table" /\ "confirm" \notin f
        IN (sess[s].kind = "cli" /\ unguarded)
              => /\ sess[s].pc \in {"require", "done"}
                 /\ sess[s].conn = 0
                 /\ sess[s].pc = "done" => sess[s].err \in {"AccessDenied", "UsageError"}

\* a delete with --where but neither --confirm nor --force was refused
\* while the pool holds a Connection
C19_Witness ==
    \E s \in Slots :
        /\ sess[s].cmd = "delete" /\ sess[s].flags = {"where"}
        /\ sess[s].pc = "done" /\ sess[s].err = "UsageError"
        /\ DOMAIN connections # {}

(***************************************************************************)
(* C20: when an ExecuteQuery call with a statement that is not classified  *)
(* read-only returns a result, the store has exactly one audit record more *)
(* than before.                                                            *)
(***************************************************************************)
C20_OneAuditRecordPerWrite ==
    [][\A s \in Slots :
         (/\ sess[s].pc = "eq_exec" /\ sess'[s].pc = "done" /\ sess'[s].err = ""
          /\ ~isReadOnlyQuery(sess[s].query))
            => AuditTotal(audit', DOMAIN audit') = AuditTotal(audit, DOMAIN audit) + 1]_vars

(***************************************************************************)
(* C21: when an ExecuteQuery call made for a session returns a result, the *)
(* history store has a Query Record of that statement under the session's  *)
(* id.                                                                     *)
(***************************************************************************)
C21_QueryRecordPerCall ==
    [][\A s \in Slots :
         (sess[s].pc = "eq_exec" /\ sess'[s].pc = "done" /\ sess'[s].err = "")
            => \E r \in queryLog' : r.SessionID = sess[s].ID /\ r.Query = sess[s].query]_vars

(***************************************************************************)
(* C22: every subscriber is called with the events in the order in which   *)
(* the scans emitted them.                                                 *)
(***************************************************************************)
C22_EventsInOrder ==
    \A c \in Subscribers :
        \A i, j \in 1..Len(disc.delivered[c]) :
            i < j => disc.delivered[c][i] < disc.delivered[c][j]

(***************************************************************************)
(* C23: whenever the set of paths in the snapshot changes, one event is    *)
(* emitted whose added list is exactly the entries of the new snapshot     *)
(* under paths the old one did not have and whose removed list is exactly  *)
(* the entries of the old snapshot under paths the new one does not have;  *)
(* when it does not change, nothing is emitted.                            *)
(***************************************************************************)
C23_EventIsTheDifference ==
    [][LET old == disc.databases
           new == disc'.databases
       IN /\ (DOMAIN new # DOMAIN old) =>
                /\ disc'.emitted = disc.emitted + 1
                /\ disc'.added = { new[p] : p \in (DOMAIN new) \ (DOMAIN old) }
                /\ disc'.removed = { old[p] : p \in (DOMAIN old) \ (DOMAIN new) }
                /\ disc'.emitted \in DOMAIN disc'.pending
          /\ (DOMAIN new = DOMAIN old) =>
                /\ disc'.emitted = disc.emitted
                /\ disc'.added = disc.added /\ disc'.removed = disc.removed]_vars

\* the second event both added a database and removed one
C23_Witness ==
    /\ disc.emitted = 2 /\ disc.added # {} /\ disc.removed # {}
    /\ DOMAIN disc.databases = { d.Path : d \in disc.added }

(***************************************************************************)
(* C24: no two entries of a snapshot have the same alias, so a lookup by   *)
(* alias has one possible answer.                                          *)
(***************************************************************************)
C24_AliasesUnique ==
    /\ \A p, q \in DOMAIN disc.databases :
          disc.databases[p].Alias = disc.databases[q].Alias => p = q
    /\ \A p \in DOMAIN disc.databases :
          Cardinality(GetDatabaseIn(disc.databases, disc.databases[p].Alias)) = 1

(***************************************************************************)
(* C25: after a scan, every source whose path is not a glob and names an   *)
(* existing regular file has that file in the snapshot, whatever its       *)
(* extension.                                                              *)
(***************************************************************************)
C25_SingleFileAdmitted ==
    [][((disc.updating /\ ~disc'.updating) \/ disc'.databases # disc.databases)
          => \A i \in 1..Len(disc'.sources) :
                LET path == disc'.sources[i].Path
                IN (~IsGlob(path) /\ path \notin Dirs /\ path \in disc'.fs)
                      => path \in DOMAIN disc'.databases]_vars

(***************************************************************************)
(* More vocabulary: the LockManager call a step is.                        *)
(***************************************************************************)
\* this step is a call of that LockManager method by session s
Calls(s, method) == sess'[s].cmd = method /\ sess'[s] # sess[s] /\ sess[s].pc = "idle"

\* the lock table without the entries of that session on those paths
Without(lk, sessionID, paths) ==
    [p \in { q \in DOMAIN lk : ~(q \in paths /\ lk[q].SessionID = sessionID) } |-> lk[p]]

(***************************************************************************)
(* C26: an entry of the lock table disappears or changes only in a release *)
(* by the session that owns it; Unlock(path, s) leaves the table without   *)
(* s's entry for that path and otherwise as it was, ReleaseAllForSession(s)*)
(* leaves it without s's entries and otherwise as it was.                  *)
(***************************************************************************)
C26_ReleaseOnlyOwn ==
    [][/\ \A p \in DOMAIN locks :
             (p \notin DOMAIN locks' \/ locks'[p] # locks[p])
                => \E s \in Slots :
                      /\ locks[p].SessionID = sess[s].ID
                      /\ \/ Calls(s, "Unlock") \/ Calls(s, "ReleaseAllForSession")
                         \/ sess[s].pc = "wwl_fn"
       /\ \A s \in Slots :
             /\ Calls(s, "Unlock") => locks' = Without(locks, sess[s].ID, {sess'[s].name})
             /\ Calls(s, "ReleaseAllForSession") => locks' = Without(locks, sess[s].ID, LockPaths)]_vars

\* a session released all its locks and the entry of another session is
\* still there
C26_Witness ==
    \E s \in Slots :
        /\ sess[s].cmd = "ReleaseAllForSession" /\ now > 2
        /\ DOMAIN locks # {}
        /\ \A p \in DOMAIN locks : locks[p].SessionID # sess[s].ID

(***************************************************************************)
(* C27: TryLock by the session that owns the path's entry returns nil and  *)
(* leaves the lock table as it was: holder, session id and acquisition     *)
(* time of the entry are unchanged.                                        *)
(***************************************************************************)
C27_ReentryIsNoOp ==
    [][\A s \in Slots :
         LET p == sess'[s].name
         IN (/\ Calls(s, "TryLock")
             /\ p \in DOMAIN locks /\ locks[p].SessionID = sess[s].ID)
               => sess'[s].err = "" /\ locks' = locks]_vars

\* a session's TryLock re-entered the entry it took at an earlier time
C27_Witness ==
    \E s \in Slots :
        /\ sess[s].cmd = "TryLock" /\ sess[s].err = "" /\ ~sess[s].locked
        /\ sess[s].name \in DOMAIN locks
        /\ locks[sess[s].name].SessionID = sess[s].ID
        /\ locks[sess[s].name].Since < now - 1

(***************************************************************************)
(* C28: WithWriteLock on a path another session holds returns LockHeld     *)
(* without running the action and leaves the table as it was; otherwise    *)
(* the action runs with the caller's entry in the table, and when the      *)
(* action returns, with or without an error, the caller's entry is gone    *)
(* and every other entry is as it was.                                     *)
(***************************************************************************)
C28_ScopedLock ==
    [][\A s \in Slots :
         LET p == sess'[s].name
             id == sess[s].ID
         IN /\ (Calls(s, "WithWriteLock") /\ p \in DOMAIN locks /\ locks[p].SessionID # id)
                  => /\ sess'[s].pc = "idle" /\ sess'[s].err = "LockHeld"
                     /\ locks' = locks
            /\ (Calls(s, "WithWriteLock") /\ ~(p \in DOMAIN locks /\ locks[p].SessionID # id))
                  => /\ sess'[s].pc = "wwl_fn"
                     /\ p \in DOMAIN locks' /\ locks'[p].SessionID = id
            /\ (sess[s].pc = "wwl_fn" /\ sess'[s].pc = "idle")
                  => locks' = Without(locks, id, {p})
                     /\ ~(p \in DOMAIN locks' /\ locks'[p].SessionID = id)]_vars

\* WithWriteLock returned the action's error and the caller has no entry,
\* while another session holds a lock
C28_Witness ==
    \E s \in Slots :
        /\ sess[s].cmd = "WithWriteLock" /\ sess[s].pc = "idle" /\ sess[s].err = "ActionFailed"
        /\ DOMAIN locks # {}
        /\ \A p \in DOMAIN locks : locks[p].SessionID # sess[s].ID

C30_OneClassification ==
    \A s \in Slots :
        (sess[s].kind = "cli" /\ sess[s].cmd = "query" /\ sess[s].pc # "require")
            => LET q == sess[s].query
                   t == TrimLeft(q, {" ", "\t", "\n", "\r", "\f"})
                   readOnly == t # << >> /\ ToUpper(t[1]) \in {"SELECT", "PRAGMA", "EXPLAIN", "WITH"}
               IN /\ cli_isReadOnlyQuery(q) = readOnly
                  /\ isReadOnlyQuery(q) = readOnly
                  /\ isSelect(q) = readOnly

(***************************************************************************)
(* C31: for every user and every discovered database, under the resolver   *)
(* installed right now, CanWrite of the resolved level implies CanRead,    *)
(* CanAdmin implies CanWrite and CanRead, and CanDownload holds exactly    *)
(* when CanRead holds.                                                     *)
(***************************************************************************)
C31_LevelsNest ==
    \A u \in AllUsers, d \in DiscoveredDatabases :
        LET l == Resolve(Resolvers[resolver], u, d.Path, d.Alias)
        IN /\ CanWrite(l) => CanRead(l)
           /\ CanAdmin(l) => (CanWrite(l) /\ CanRead(l))
           /\ CanDownload(l) <=> CanRead(l)

\* a user whose level is ReadWrite has run a writing statement, under a
\* resolver that gives other users the levels ReadOnly and Admin
C31_Witness ==
    /\ \E s \in Slots :
          /\ Connected(s) /\ Known(s) /\ LevelOf(s) = ReadWrite
          /\ sess[s].pc = "done" /\ sess[s].err = "" /\ Modifies(sess[s].query)
    /\ \A l \in {ReadOnly, ReadWrite, Admin} :
          \E u \in AllUsers, d \in DiscoveredDatabases :
              Resolve(Resolvers[resolver], u, d.Path, d.Alias) = l

(***************************************************************************)
(* C32: when two writing ExecuteQuery calls on one database are inside     *)
(* their locked section under the same session id and one of them returns, *)
(* the lock table still holds the database's entry for that session id,    *)
(* for the call that has not returned.                                     *)
(***************************************************************************)
C32_InnerReturnKeepsOuterHold ==
    [][\A a, b \in Slots :
         (/\ a # b /\ Holding(a) /\ Holding(b)
          /\ GetSessionID(a) = GetSessionID(b) /\ PathOf(a) = PathOf(b)
          /\ sess'[a].pc = "done" /\ sess'[b] = sess[b])
            => /\ PathOf(b) \in DOMAIN locks'
               /\ locks'[PathOf(b)].SessionID = GetSessionID(b)]_vars

(***************************************************************************)
(* C33: when an ExecuteQuery call is at the engine, every lookup of the    *)
(* name it made that found a database found the same path: the path whose  *)
(* level was checked, the path that is locked and the path of the          *)
(* Connection the statement runs on are one path.                          *)
(***************************************************************************)
C33_OnePathPerCall ==
    \A s \in Slots :
        (sess[s].kind = "call" /\ sess[s].pc = "xq_query")
            => /\ \A i, j \in 1..Len(sess[s].lookups) :
                     (sess[s].lookups[i] # "" /\ sess[s].lookups[j] # "")
                        => sess[s].lookups[i] = sess[s].lookups[j]
               /\ conns[sess[s].conn].Path = sess[s].lookups[1]
               /\ sess[s].locked => sess[s].lookups[1] \in DOMAIN locks

(***************************************************************************)
(* C35: when the pool holds a Connection for a path that is not in         *)
(* Discovery's snapshot and no call is using that Connection, then         *)
(* eventually the pool holds no Connection for the path, or the path is    *)
(* discovered again.                                                       *)
(***************************************************************************)
C35_VanishedIsClosed ==
    \A p \in Files :
        (/\ p \in DOMAIN connections
         /\ p \notin DOMAIN disc.databases
         /\ \A s \in Slots : sess[s].conn # connections[p])
            ~> (p \notin DOMAIN connections \/ p \in DOMAIN disc.databases)

(***************************************************************************)
(* C34: whenever a call reads the resolver and the discovery snapshot to   *)
(* resolve its access level, the resolver and Discovery's source list are  *)
(* those of one and the same configuration.                                *)
(***************************************************************************)
C34_ReloadIsAtomic ==
    [][\A s \in Slots :
         (sess[s].pc \in {"xq_level", "xq_pool"} /\ sess'[s].pc # sess[s].pc)
            => \E c \in DOMAIN Configs :
                  resolver = BuildResolver(c) /\ disc.sources = Configs[c].Databases]_vars

(***************************************************************************)
(* C39: a reload whose Config.Reload fails returns with the Config, the    *)
(* Manager's resolver and Discovery's source list as they were; the        *)
(* callback starts only in a reload whose file parsed, with the Config     *)
(* that file holds, and only the callback changes the resolver and the     *)
(* source list.                                                            *)
(***************************************************************************)
C39_CallbacksOnlyOnSuccess ==
    [][/\ (cw.reload = "reload" /\ cw'.reload # "reload" /\ cw.file = Malformed)
          => /\ cw'.reload = "idle"
             /\ cw'.config = cw.config /\ resolver' = resolver /\ disc'.sources = disc.sources
       /\ (cw'.reload = "resolver" /\ cw.reload # "resolver")
          => cw.reload = "reload" /\ cw.file # Malformed /\ cw'.config = cw.file
       /\ cw'.config # cw.config => cw.reload = "reload" /\ cw.file # Malformed
       /\ resolver' # resolver => cw.reload = "resolver"
       /\ disc'.sources # disc.sources => cw.reload = "sources"]_vars

\* the second configuration was loaded and installed, and a later reload
\* of a malformed file has failed
C39_Witness ==
    /\ cw.err = "ReloadFailed" /\ cw.reload = "idle" /\ cw.file = Malformed
    /\ cw.config = 2 /\ resolver = BuildResolver(2) /\ disc.sources = Configs[2].Databases

(***************************************************************************)
(* C40: once Stop has returned, the debounce timer does not fire: no       *)
(* reload starts and no callback is called for it.                         *)
(***************************************************************************)
C40_NoReloadAfterStop ==
    [][cw.stopped => ~(cw.reload = "idle" /\ cw'.reload = "reload")]_vars

(***************************************************************************)
(* C37: a rescan by the watcher loop answers every database-file event     *)
(* that had arrived when it ran: after it, no event of a database file     *)
(* that arrived before it is left to trigger another rescan.               *)
(***************************************************************************)
C37_BurstIsOneRescan ==
    [][(dw.loop = "running" /\ dw.events # << >> /\ dw'.events = Tail(dw.events)
        /\ isSQLiteFile(Head(dw.events).Name))
          => \A i \in 1..Len(dw'.events) : ~isSQLiteFile(dw'.events[i].Name)]_vars

(***************************************************************************)
(* C38: the loop starts only after Start's first scan, the lifecycle moves *)
(* from idle over running and stopping to stopped and never back, and an   *)
(* event of a change that happened after Stop was called triggers no       *)
(* rescan.                                                                 *)
(***************************************************************************)
C38_Lifecycle ==
    [][/\ (dw.loop # "running" /\ dw'.loop = "running") => dw.loop = "scanned"
       /\ (dw.loop = "idle" /\ dw'.loop # "idle") =>
             dw'.loop = "scanned" /\ disc'.databases = newDatabases(disc.sources, disc.fs, EmptyMap)
       /\ dw.stopped => dw'.stopped
       /\ dw.closed => dw'.closed
       /\ dw.loop = "exited" => dw'.loop = "exited" /\ disc'.databases = disc.databases
       /\ (dw.loop = "running" /\ dw.events # << >> /\ dw'.events = Tail(dw.events)
           /\ Head(dw.events).late)
             => disc'.databases = disc.databases /\ disc'.emitted = disc.emitted]_vars

(***************************************************************************)
(* C36: a Connection the pool opens is read-only exactly when the opener's *)
(* level on the Connection's database, at that moment, does not allow      *)
(* writing, and no step changes the path or the mode of a Connection.      *)
(***************************************************************************)
C36_ModeFollowsOpener ==
    [][/\ \A c \in 1..Len(conns) :
             conns'[c].Path = conns[c].Path /\ conns'[c].ReadOnly = conns[c].ReadOnly
       /\ \A s \in Slots :
             (Len(conns') = Len(conns) + 1 /\ sess'[s].conn = Len(conns'))
                => LET c == conns'[Len(conns')]
                   IN c.Path \in DOMAIN disc.databases
                         => c.ReadOnly = ~CanWrite(Resolve(Resolvers[resolver], sess[s].user, c.Path,
                                                           disc.databases[c.Path].Alias))]_vars

====
